---- MODULE Spec2Model ----
(***************************************************************************)
(* Model of the architectural synthesis engine                             *)
(* (scripts/generate_architectural_synthesis.py).                          *)
(*                                                                         *)
(* Strings are sequences of one-character strings, so that substring       *)
(* tests, joins, replacements and lexicographic sorting are computed the   *)
(* way Python computes them.  Python dicts are modelled with their         *)
(* insertion order: a record [keys |-> sequence, val |-> function].        *)
(***************************************************************************)
EXTENDS Integers, Sequences, FiniteSets, TLC

VARIABLES
    pc,                     \* position in run() / compute_migration_order()
    disk,                   \* the documents under the output directory
    legacy_analysis,        \* self.legacy_analysis
    routes_data,            \* self.routes_data
    database_schema,        \* self.database_schema
    extracted_services,     \* self.extracted_services
    route_to_file,          \* self.route_to_file
    file_to_routes,         \* self.file_to_routes
    file_to_tables,         \* self.file_to_tables
    table_to_files,         \* self.table_to_files
    file_metrics,           \* self.file_metrics
    data_couplings,         \* self.data_couplings
    security_hotspots,      \* self.security_hotspots
    clusters,               \* compute_service_boundaries: clusters
    file_to_cluster,        \* compute_service_boundaries: file_to_cluster
    module_recommendations, \* self.module_recommendations
    remaining,              \* compute_migration_order: remaining
    migrated,               \* compute_migration_order: migrated
    migration_order,        \* compute_migration_order: migration_order
    synthesis,              \* the synthesis document of this run
    written,                \* names of the output files written so far
    exit_code,              \* process exit code (-1 while running)
    stages,                 \* the stages of run() executed so far, in order
    run_no,                 \* 1 for the first run, 2 for the repeated run
    first_synthesis         \* the synthesis document of the first run

vars == <<pc, disk, legacy_analysis, routes_data, database_schema,
          extracted_services, route_to_file, file_to_routes, file_to_tables,
          table_to_files, file_metrics, data_couplings, security_hotspots,
          clusters, file_to_cluster, module_recommendations, remaining,
          migrated, migration_order, synthesis, written, exit_code, stages,
          run_no, first_synthesis>>

(***************************************************************************)
(* Strings                                                                 *)
(***************************************************************************)

\* The characters used, in code point order (Python compares strings by
\* code point).
Alphabet ==
    <<" ", "-", ".", "/", "E", "G", "O", "P", "S", "T", "_",
      "a", "b", "c", "d", "e", "f", "g", "h", "i", "j", "k", "l", "m",
      "n", "o", "p", "q", "r", "s", "t", "u", "v", "w", "x", "y", "z">>

Ord(c) == CHOOSE i \in 1..Len(Alphabet) : Alphabet[i] = c

RECURSIVE StrLess(_, _)
StrLess(s, t) ==
    IF s = <<>> THEN t # <<>>
    ELSE IF t = <<>> THEN FALSE
    ELSE IF Head(s) = Head(t) THEN StrLess(Tail(s), Tail(t))
    ELSE Ord(Head(s)) < Ord(Head(t))

\* sorted(S) for a set of strings
RECURSIVE SortedStrs(_)
SortedStrs(S) ==
    IF S = {} THEN <<>>
    ELSE LET m == CHOOSE x \in S : \A y \in S : x = y \/ StrLess(x, y)
         IN  <<m>> \o SortedStrs(S \ {m})

Range(s) == {s[i] : i \in 1..Len(s)}

\* Python dict with insertion order
EmptyDict == [keys |-> <<>>, val |-> <<>>]
HasKey(d, k) == k \in Range(d.keys)
DictGet(d, k, default) == IF HasKey(d, k) THEN d.val[k] ELSE default
DictSet(d, k, v) ==
    IF HasKey(d, k)
    THEN [d EXCEPT !.val = [x \in DOMAIN d.val |-> IF x = k THEN v ELSE d.val[x]]]
    ELSE [keys |-> Append(d.keys, k),
          val  |-> [x \in Range(d.keys) \cup {k} |->
                        IF x = k THEN v ELSE d.val[x]]]

\* sub in s
Contains(s, sub) ==
    \E i \in 0..(Len(s) - Len(sub)) : SubSeq(s, i + 1, i + Len(sub)) = sub

\* s.replace(old, new): every non-overlapping occurrence, left to right
RECURSIVE Replace(_, _, _)
Replace(s, old, new) ==
    IF Len(s) < Len(old) \/ old = <<>> THEN s
    ELSE IF SubSeq(s, 1, Len(old)) = old
         THEN new \o Replace(SubSeq(s, Len(old) + 1, Len(s)), old, new)
         ELSE <<Head(s)>> \o Replace(Tail(s), old, new)

\* s.lower()
LowerChar(c) ==
    CASE c = "C" -> "c" [] c = "H" -> "h" [] c = "I" -> "i"
      [] c = "E" -> "e" [] c = "G" -> "g" [] c = "O" -> "o"
      [] c = "P" -> "p" [] c = "S" -> "s" [] c = "T" -> "t"
      [] OTHER -> c
Lower(s) == [i \in 1..Len(s) |-> LowerChar(s[i])]

\* os.path.basename(p): what follows the last "/"
RECURSIVE Basename(_)
Basename(p) ==
    IF p = <<>> \/ p[Len(p)] = "/" THEN <<>>
    ELSE Append(Basename(SubSeq(p, 1, Len(p) - 1)), p[Len(p)])

\* s.strip('/')
RECURSIVE StripSlashes(_)
StripSlashes(s) ==
    IF s = <<>> THEN s
    ELSE IF Head(s) = "/" THEN StripSlashes(Tail(s))
    ELSE IF s[Len(s)] = "/" THEN StripSlashes(SubSeq(s, 1, Len(s) - 1))
    ELSE s

\* s.split(sep)[0]: what precedes the first sep (all of s without one)
RECURSIVE UpToFirst(_, _)
UpToFirst(s, sep) ==
    IF s = <<>> \/ Head(s) = sep THEN <<>>
    ELSE <<Head(s)>> \o UpToFirst(Tail(s), sep)

\* s.split(' ', 1)[1]: what follows the first space
RECURSIVE AfterFirstSpace(_)
AfterFirstSpace(s) ==
    IF s = <<>> THEN <<>>
    ELSE IF Head(s) = " " THEN Tail(s)
    ELSE AfterFirstSpace(Tail(s))

\* sum of f[x] over the finite set S
RECURSIVE SumOver(_, _)
SumOver(S, f) ==
    IF S = {} THEN 0
    ELSE LET x == CHOOSE x \in S : TRUE
         IN  f[x] + SumOver(S \ {x}, f)

Max(a, b) == IF a >= b THEN a ELSE b
Min(a, b) == IF a <= b THEN a ELSE b

(***************************************************************************)
(* ModuleRecommendation and compute_migration_order                        *)
(***************************************************************************)

\* lambda m: (m.migration_risk != 'low', m.complexity_score), compared as
\* Python compares tuples (False < True)
RiskKeyLess(a, b) ==
    LET ra == IF a.migration_risk # "low" THEN 1 ELSE 0
        rb == IF b.migration_risk # "low" THEN 1 ELSE 0
    IN  ra < rb \/ (ra = rb /\ a.complexity_score < b.complexity_score)

\* ready = [m for m in remaining if all(d in migrated for d in m.dependencies)]
Ready(rem, mig) ==
    SelectSeq(rem, LAMBDA m : \A i \in 1..Len(m.dependencies) :
                                  m.dependencies[i] \in mig)

\* A fallback that offers nothing
Fallback_Nothing(rem) == <<>>

\* sorted(remaining, key=...)[:1]: the sort is stable, so the first element
\* of remaining with the least key
Fallback(rem) ==
    IF rem = <<>> THEN <<>>
    ELSE LET i == CHOOSE i \in 1..Len(rem) :
                     /\ \A j \in 1..Len(rem) : ~RiskKeyLess(rem[j], rem[i])
                     /\ \A j \in 1..(i-1) : RiskKeyLess(rem[i], rem[j])
         IN  <<rem[i]>>

\* The ready module of greatest priority number
FirstByPriority_Greatest(ready) ==
    LET i == CHOOSE i \in 1..Len(ready) :
                 \A j \in 1..Len(ready) : ready[j].priority <= ready[i].priority
    IN  ready[i]

\* ready.sort(key=lambda m: m.priority); next_module = ready[0]
FirstByPriority(ready) ==
    LET i == CHOOSE i \in 1..Len(ready) :
                 /\ \A j \in 1..Len(ready) : ready[j].priority >= ready[i].priority
                 /\ \A j \in 1..(i-1) : ready[j].priority > ready[i].priority
    IN  ready[i]

\* Candidates taken without regard to the dependencies
Candidates_IgnoreDeps(rem, mig) == rem

\* ready, after "if not ready: ready = sorted(remaining, ...)[:1]"
Candidates(rem, mig) ==
    LET ready == Ready(rem, mig)
    IN  IF ready = <<>> THEN Fallback(rem) ELSE ready

NextModule(rem, mig) == FirstByPriority(Candidates(rem, mig))

\* A removal that drops the head of the list whatever was chosen
RemoveModule_Head(rem, m) == Tail(rem)

\* remaining.remove(next_module): drops the first element equal to it
RemoveModule(rem, m) ==
    LET i == CHOOSE i \in 1..Len(rem) :
                 rem[i] = m /\ \A j \in 1..(i-1) : rem[j] # m
    IN  SubSeq(rem, 1, i-1) \o SubSeq(rem, i+1, Len(rem))

MigrationStep(m, n) ==
    [step            |-> n,
     module          |-> m.name,
     is_microservice |-> m.is_microservice,
     risk            |-> m.migration_risk,
     effort          |-> m.estimated_effort,
     dependencies    |-> m.dependencies,
     routes_count    |-> Len(m.routes),
     tables_count    |-> Len(m.tables),
     security_issues |-> m.security_issues,
     rationale       |-> m.rationale]

\* The whole while loop, as generate_synthesis calls it
RECURSIVE OrderLoop(_, _, _)
OrderLoop(rem, mig, order) ==
    IF rem = <<>> \/ Candidates(rem, mig) = <<>> THEN order
    ELSE LET m == NextModule(rem, mig)
         IN  OrderLoop(RemoveModule(rem, m), mig \cup {m.name},
                       Append(order, MigrationStep(m, Len(order) + 1)))

ComputeMigrationOrder(mods) == OrderLoop(mods, {}, <<>>)

(***************************************************************************)
(* Names                                                                   *)
(***************************************************************************)
S_auth     == <<"a", "u", "t", "h">>
S_users    == <<"u", "s", "e", "r", "s">>
S_products == <<"p", "r", "o", "d", "u", "c", "t", "s">>
S_orders   == <<"o", "r", "d", "e", "r", "s">>
S_cart     == <<"c", "a", "r", "t">>
S_payments == <<"p", "a", "y", "m", "e", "n", "t", "s">>

(***************************************************************************)
(* compute_migration_order run on its own: one action per loop iteration   *)
(***************************************************************************)
MaxComplexity == 1

OrderNames == <<S_users, S_products, S_orders>>
Risks == {"low", "medium", "high"}

ModuleRec(name, prio, deps, risk, cx) ==
    [name             |-> name,
     rationale        |-> "Groups related functionality",
     routes           |-> <<>>,
     tables           |-> <<>>,
     php_files        |-> <<>>,
     complexity_score |-> cx,
     security_issues  |-> 0,
     lines_of_code    |-> 0,
     priority         |-> prio,
     dependencies     |-> SortedStrs(deps),
     is_microservice  |-> FALSE,
     migration_risk   |-> risk,
     estimated_effort |-> "small"]

\* Lists as _refine_clusters_to_modules leaves them: distinct names, sorted
\* by priority, priority = position.  The dependency sets are arbitrary sets
\* of other modules' names.
OrderInputsOver(risks) ==
    LET N == Len(OrderNames)
        others(i) == {OrderNames[j] : j \in (1..N) \ {i}}
    IN  { [i \in 1..N |-> ModuleRec(OrderNames[i], i, d[i], r[i], c[i])] :
            d \in {f \in [1..N -> SUBSET Range(OrderNames)] :
                      \A i \in 1..N : f[i] \subseteq others(i)},
            r \in [1..N -> risks],
            c \in [1..N -> 0..MaxComplexity] }

OrderInputs == OrderInputsOver(Risks)

\* A document that is not there, and what .get(key, default) reads from the
\* empty dict the constructor leaves in its place.  keyed says that the list
\* of the document is written as a JSON object instead; keys are then the keys
\* of the file records, in the order of the document.
NoLegacy   == [exists |-> FALSE, keyed |-> FALSE, keys |-> <<>>, all_files |-> <<>>,
               security_issues_detail |-> <<>>]
NoRoutes   == [exists |-> FALSE, keyed |-> FALSE, routes |-> <<>>]
NoSchema   == [exists |-> FALSE, tables |-> {}]
NoServices == [exists |-> FALSE, keyed |-> FALSE, services |-> <<>>]

\* No output directory at all; malformed names the documents of a directory
\* whose bytes are not JSON
NoDisk == [dir |-> FALSE, malformed |-> {}, legacy |-> NoLegacy, routes |-> NoRoutes,
           schema |-> NoSchema, services |-> NoServices]

PipelineIdle ==
    /\ disk = NoDisk
    /\ legacy_analysis = NoLegacy
    /\ routes_data = NoRoutes
    /\ database_schema = NoSchema
    /\ extracted_services = NoServices
    /\ route_to_file = EmptyDict
    /\ file_to_routes = EmptyDict
    /\ file_to_tables = EmptyDict
    /\ table_to_files = EmptyDict
    /\ file_metrics = EmptyDict
    /\ data_couplings = <<>>
    /\ security_hotspots = <<>>
    /\ clusters = EmptyDict
    /\ file_to_cluster = EmptyDict
    /\ synthesis = "none"
    /\ written = {}
    /\ exit_code = -1
    /\ stages = <<>>
    /\ run_no = 1
    /\ first_synthesis = "none"

pipelineVars == <<disk, legacy_analysis, routes_data, database_schema,
                  extracted_services, route_to_file, file_to_routes,
                  file_to_tables, table_to_files, file_metrics, data_couplings,
                  security_hotspots, clusters, file_to_cluster, synthesis,
                  written, exit_code, stages, run_no, first_synthesis>>

InitOrderOver(inputs) ==
    /\ PipelineIdle
    /\ module_recommendations \in inputs
    /\ remaining = module_recommendations
    /\ migrated = {}
    /\ migration_order = <<>>
    /\ pc = "order_loop"

\* One iteration of "while remaining:".  ready[0] on an empty list raises
\* IndexError, which leaves the loop stuck here.
OrderStep ==
    /\ pc = "order_loop"
    /\ remaining # <<>>
    /\ Candidates(remaining, migrated) # <<>>
    /\ LET m == NextModule(remaining, migrated)
       IN  /\ migration_order' =
                Append(migration_order, MigrationStep(m, Len(migration_order) + 1))
           /\ migrated' = migrated \cup {m.name}
           /\ remaining' = RemoveModule(remaining, m)
    /\ UNCHANGED <<pc, module_recommendations, pipelineVars>>

\* "return migration_order" once remaining is empty
OrderReturn ==
    /\ pc = "order_loop"
    /\ remaining = <<>>
    /\ pc' = "order_done"
    /\ UNCHANGED <<module_recommendations, remaining, migrated,
                   migration_order, pipelineVars>>

InitOrder == InitOrderOver(OrderInputs)

NextOrder == OrderStep \/ OrderReturn

SpecOrder == InitOrder /\ [][NextOrder]_vars

\* Termination is checked over the two values of the fallback's key
\* migration_risk != 'low'
InitTermination == InitOrderOver(OrderInputsOver({"low", "high"}))

\* The loop is the only thing running: it takes its next step.
FairSpecOrder == InitTermination /\ [][NextOrder]_vars /\ WF_vars(NextOrder)

\* The list _refine_clusters_to_modules leaves for the modules auth, users,
\* products and orders: sorted by priority_order, and only orders with
\* dependencies, on users or products (lines 536-539)
FoundationNames == <<S_auth, S_users, S_products, S_orders>>

FoundationInputs ==
    LET N == Len(FoundationNames)
    IN  { [i \in 1..N |->
              ModuleRec(FoundationNames[i], i, IF i = N THEN d ELSE {}, r[i], c[i])] :
            d \in SUBSET {S_users, S_products},
            r \in [1..N -> Risks],
            c \in [1..N -> 0..MaxComplexity] }

InitOrderAll == InitOrderOver(OrderInputs \cup FoundationInputs)

SpecOrderAll == InitOrderAll /\ [][NextOrder]_vars

(***************************************************************************)
(* Properties of the migration order                                       *)
(***************************************************************************)
ModuleNames(mods) == {mods[i].name : i \in 1..Len(mods)}
DepsOf(mods, n) ==
    UNION {Range(mods[i].dependencies) : i \in {j \in 1..Len(mods) : mods[j].name = n}}

\* The names reachable from n along one or more dependency edges
RECURSIVE ReachFrom(_, _, _)
ReachFrom(mods, frontier, seen) ==
    LET next == UNION {DepsOf(mods, x) : x \in frontier}
    IN  IF next \subseteq seen THEN seen
        ELSE ReachFrom(mods, next \ seen, seen \cup next)
Reach(mods, n) == ReachFrom(mods, {n}, {})
OnCycle(mods, n) == n \in Reach(mods, n)

\* Position of module n in the migration order (0 when it is not emitted)
StepOf(order, n) ==
    IF \E k \in 1..Len(order) : order[k].module = n
    THEN CHOOSE k \in 1..Len(order) : order[k].module = n
    ELSE 0

\* C1: the migration order returned by compute_migration_order has as many
\* steps as there are modules and names each module exactly once, whatever
\* the dependency sets (cyclic ones included).
C1_OrderIsPermutation ==
    pc = "order_done" =>
        /\ Len(migration_order) = Len(module_recommendations)
        /\ \A n \in ModuleNames(module_recommendations) :
              Cardinality({k \in 1..Len(migration_order) :
                              migration_order[k].module = n}) = 1
        /\ \A k \in 1..Len(migration_order) : migration_order[k].step = k

\* C1 witness: a finished order over a list in which some module is on a
\* dependency cycle.
C1_Witness ==
    /\ pc = "order_done"
    /\ Len(migration_order) = Len(OrderNames)
    /\ \E n \in ModuleNames(module_recommendations) :
          OnCycle(module_recommendations, n)

\* C2 as stated: every module that is not itself on a dependency cycle is
\* emitted strictly after each of its dependencies.
C2_NotOnCycleAfterDeps ==
    pc = "order_done" =>
        \A n \in ModuleNames(module_recommendations) :
            ~OnCycle(module_recommendations, n) =>
                \A d \in DepsOf(module_recommendations, n) :
                    StepOf(migration_order, d) < StepOf(migration_order, n)

\* C2 amended: every module that is not on a dependency cycle and does not
\* depend, directly or transitively, on a module that is on one is emitted
\* strictly after each of its dependencies.
C2_AcyclicClosureAfterDeps ==
    pc = "order_done" =>
        \A n \in ModuleNames(module_recommendations) :
            (\A x \in {n} \cup Reach(module_recommendations, n) :
                 ~OnCycle(module_recommendations, x)) =>
                \A d \in DepsOf(module_recommendations, n) :
                    /\ StepOf(migration_order, d) > 0
                    /\ StepOf(migration_order, d) < StepOf(migration_order, n)

\* C2 witness: the module with the best priority depends on the module with
\* the worst one, nothing is cyclic, and the dependency is emitted first.
C2_Witness ==
    /\ pc = "order_done"
    /\ module_recommendations[1].dependencies = <<OrderNames[3]>>
    /\ \A n \in ModuleNames(module_recommendations) :
          ~OnCycle(module_recommendations, n)
    /\ StepOf(migration_order, OrderNames[3]) < StepOf(migration_order, OrderNames[1])

\* C3: the loop terminates for every module list, cyclic dependencies
\* included: every iteration moves exactly one module from remaining to
\* migrated, and remaining eventually is empty.
C3_OrderTerminates ==
    /\ [][pc = "order_loop" /\ remaining # <<>> =>
             /\ Len(remaining') = Len(remaining) - 1
             /\ Cardinality(migrated') = Cardinality(migrated) + 1
             /\ \E i \in 1..Len(remaining) :
                   /\ migrated' = migrated \cup {remaining[i].name}
                   /\ remaining[i].name \notin ModuleNames(remaining')]_vars
    /\ <>(pc = "order_done" /\ remaining = <<>>)

\* C3 witness: the loop has returned for two modules that depend on each
\* other.
C3_Witness ==
    /\ pc = "order_done"
    /\ remaining = <<>>
    /\ OrderNames[2] \in DepsOf(module_recommendations, OrderNames[1])
    /\ OrderNames[1] \in DepsOf(module_recommendations, OrderNames[2])

(***************************************************************************)
(* Sorting                                                                 *)
(***************************************************************************)

\* sorted(seq, key=...) for the strict weak order Less on the elements'
\* keys.  Python's sort is stable: an element comes after the elements with
\* a smaller key and after the earlier elements with an equal key.
StableSort(seq, Less(_, _)) ==
    LET n == Len(seq)
        pos(i) == 1 + Cardinality({j \in 1..n :
                          \/ Less(seq[j], seq[i])
                          \/ (j < i /\ ~Less(seq[i], seq[j]))})
    IN  [k \in 1..n |-> seq[CHOOSE i \in 1..n : pos(i) = k]]

(***************************************************************************)
(* correlate_routes_to_files                                               *)
(***************************************************************************)
RouteKey(route) == route.method \o <<" ">> \o route.path

RECURSIVE CorrelateRoutes(_, _, _)
CorrelateRoutes(routes, r2f, f2r) ==
    IF routes = <<>> THEN [route_to_file |-> r2f, file_to_routes |-> f2r]
    ELSE LET route    == Head(routes)
             filename == Basename(route.target)
             key      == RouteKey(route)
         IN  IF route.target # <<>>
             THEN CorrelateRoutes(Tail(routes),
                      DictSet(r2f, key, filename),
                      DictSet(f2r, filename,
                              Append(DictGet(f2r, filename, <<>>), key)))
             ELSE CorrelateRoutes(Tail(routes), r2f, f2r)

(***************************************************************************)
(* correlate_files_to_tables                                               *)
(***************************************************************************)
FileMetrics(file_data) ==
    [lines           |-> file_data.total_lines,
     complexity      |-> file_data.cyclomatic_complexity,
     functions       |-> 0,
     has_database    |-> FALSE,
     security_issues |-> file_data.security_issues]

\* The loop over database_patterns of one file
RECURSIVE AddPatterns(_, _, _, _, _)
AddPatterns(patterns, filename, all_tables, f2t, t2f) ==
    IF patterns = <<>> THEN [file_to_tables |-> f2t, table_to_files |-> t2f]
    ELSE LET table == Head(patterns).table
         IN  IF table # <<>> /\ table \in all_tables
             THEN AddPatterns(Tail(patterns), filename, all_tables,
                      DictSet(f2t, filename, DictGet(f2t, filename, {}) \cup {table}),
                      DictSet(t2f, table, DictGet(t2f, table, {}) \cup {filename}))
             ELSE AddPatterns(Tail(patterns), filename, all_tables, f2t, t2f)

RECURSIVE CorrelateFiles(_, _, _, _, _)
CorrelateFiles(all_files, all_tables, metrics, f2t, t2f) ==
    IF all_files = <<>>
    THEN [file_metrics |-> metrics, file_to_tables |-> f2t, table_to_files |-> t2f]
    ELSE LET file_data == Head(all_files)
             filename  == Basename(file_data.path)
             added     == AddPatterns(file_data.database_patterns, filename,
                                      all_tables, f2t, t2f)
         IN  CorrelateFiles(Tail(all_files), all_tables,
                            DictSet(metrics, filename, FileMetrics(file_data)),
                            added.file_to_tables, added.table_to_files)

(***************************************************************************)
(* analyze_data_coupling                                                   *)
(***************************************************************************)
MinCoOccurrence == 2
TightTenths == 8
ModerateTenths == 5

\* Only the pairs of neighbours in the sorted list
PairsOf_Adjacent(list) == [j \in 1..(Len(list) - 1) |-> <<list[j], list[j + 1]>>]

\* for i, t1 in enumerate(tables_list): for t2 in tables_list[i+1:]
RECURSIVE PairsOf(_)
PairsOf(list) ==
    IF Len(list) < 2 THEN <<>>
    ELSE [j \in 1..(Len(list) - 1) |-> <<list[1], list[j + 1]>>] \o PairsOf(Tail(list))

RECURSIVE CountPairs(_, _)
CountPairs(pairs, occ) ==
    IF pairs = <<>> THEN occ
    ELSE CountPairs(Tail(pairs),
                    DictSet(occ, Head(pairs), DictGet(occ, Head(pairs), 0) + 1))

\* table_co_occurrence, filled file by file in the order of file_to_tables
RECURSIVE CoOccurrence(_, _, _)
CoOccurrence(files, f2t, occ) ==
    IF files = <<>> THEN occ
    ELSE CoOccurrence(Tail(files), f2t,
                      CountPairs(PairsOf(SortedStrs(f2t.val[Head(files)])), occ))

\* The comparison with > in place of >=
RatioAtLeast_Strict(common, least, tenths) == common * 10 > tenths * least

\* ratio >= tenths / 10 for ratio = common / least: on the small integers of
\* a file count the float division and comparison are exact
RatioAtLeast(common, least, tenths) == common * 10 >= tenths * least

CouplingStrength(common, least) ==
    IF RatioAtLeast(common, least, TightTenths) THEN "tight"
    ELSE IF RatioAtLeast(common, least, ModerateTenths) THEN "moderate"
    ELSE "loose"

CouplingRecommendation(strength, t1, t2) ==
    IF strength = "tight"
    THEN <<"Tables ", t1, " and ", t2, " should be in the SAME module/service">>
    ELSE IF strength = "moderate"
    THEN <<"Consider keeping ", t1, " and ", t2,
           " in the same module, or use events for sync">>
    ELSE <<"Tables ", t1, " and ", t2, " can be in different modules with API calls">>

\* The loop over the pairs sorted by descending count
RECURSIVE Couplings(_, _, _)
Couplings(pairs, occ, t2f) ==
    IF pairs = <<>> THEN <<>>
    ELSE LET t1       == Head(pairs)[1]
             t2       == Head(pairs)[2]
             t1_files == DictGet(t2f, t1, {})
             t2_files == DictGet(t2f, t2, {})
             common   == t1_files \cap t2_files
             least    == Min(Cardinality(t1_files), Cardinality(t2_files))
             strength == CouplingStrength(Cardinality(common), least)
             rest     == Couplings(Tail(pairs), occ, t2f)
         IN  IF occ.val[Head(pairs)] >= MinCoOccurrence
                /\ Cardinality(t1_files) > 0 /\ Cardinality(t2_files) > 0
             THEN <<[tables            |-> <<t1, t2>>,
                     coupling_strength |-> strength,
                     accessed_by_files |-> SortedStrs(common),
                     recommendation    |-> CouplingRecommendation(strength, t1, t2)]>>
                  \o rest
             ELSE rest

AnalyzeCoupling(f2t, t2f) ==
    LET occ    == CoOccurrence(f2t.keys, f2t, EmptyDict)
        more(a, b) == occ.val[a] > occ.val[b]
    IN  Couplings(StableSort(occ.keys, more), occ, t2f)

(***************************************************************************)
(* identify_security_hotspots                                              *)
(***************************************************************************)
S_sql_injection == <<"s", "q", "l", "_", "i", "n", "j", "e", "c", "t", "i", "o", "n">>
S_xss == <<"x", "s", "s">>

\* severity_weights = {'critical': 10, 'high': 5, 'medium': 2, 'low': 1}
SeverityWeights ==
    DictSet(DictSet(DictSet(DictSet(EmptyDict,
        <<"c", "r", "i", "t", "i", "c", "a", "l">>, 10),
        <<"h", "i", "g", "h">>, 5),
        <<"m", "e", "d", "i", "u", "m">>, 2),
        <<"l", "o", "w">>, 1)

\* severity_weights.get(severity, 1), severity being lower-cased
SeverityWeight(severity) == DictGet(SeverityWeights, Lower(severity), 1)

\* by_file: filename -> [issues: type -> count, score].  The code keeps the
\* score under the key '_severity_score' of the same dict and pops it before
\* it counts; no finding type of the inputs has that name.
RECURSIVE GroupIssues(_, _)
GroupIssues(detail, by_file) ==
    IF detail = <<>> THEN by_file
    ELSE LET issue    == Head(detail)
             filename == Basename(issue.file)
             entry    == DictGet(by_file, filename, [issues |-> EmptyDict, score |-> 0])
         IN  GroupIssues(Tail(detail),
                 DictSet(by_file, filename,
                     [issues |-> DictSet(entry.issues, issue.type,
                                         DictGet(entry.issues, issue.type, 0) + 1),
                      score  |-> entry.score + SeverityWeight(issue.severity)]))

TotalIssues(issues) == SumOver(Range(issues.keys), issues.val)

\* A threshold that asks for both
IsHotspot_Both(total, severity_score) == total >= 3 /\ severity_score >= 10

\* if total >= 3 or severity_score >= 10
IsHotspot(total, severity_score) == total >= 3 \/ severity_score >= 10

\* The recommendation chosen over all the types of the file
HotspotRecommendation_AllTypes(issues) ==
    LET top_types == Range(issues.keys)
    IN  IF S_sql_injection \in top_types
        THEN "CRITICAL: Use parameterized queries/TypeORM. Migrate this file early."
        ELSE IF S_xss \in top_types
        THEN "HIGH: Add input validation and output encoding. Use class-validator."
        ELSE IF \E t \in top_types : Contains(Lower(t), <<"a", "u", "t", "h">>)
        THEN "HIGH: Implement proper JWT guards and role-based access."
        ELSE "MEDIUM: Address security issues during migration with proper NestJS patterns."

\* sorted(issues.items(), key=count, reverse=True)[:3], then the chain of
\* membership tests on top_types
HotspotRecommendation(issues) ==
    LET more(a, b) == issues.val[a] > issues.val[b]
        ranked     == StableSort(issues.keys, more)
        top_types  == Range(SubSeq(ranked, 1, Min(3, Len(ranked))))
    IN  IF S_sql_injection \in top_types
        THEN "CRITICAL: Use parameterized queries/TypeORM. Migrate this file early."
        ELSE IF S_xss \in top_types
        THEN "HIGH: Add input validation and output encoding. Use class-validator."
        ELSE IF \E t \in top_types : Contains(Lower(t), <<"a", "u", "t", "h">>)
        THEN "HIGH: Implement proper JWT guards and role-based access."
        ELSE "MEDIUM: Address security issues during migration with proper NestJS patterns."

RECURSIVE Hotspots(_, _)
Hotspots(files, by_file) ==
    IF files = <<>> THEN <<>>
    ELSE LET entry == by_file.val[Head(files)]
             total == TotalIssues(entry.issues)
             rest  == Hotspots(Tail(files), by_file)
         IN  IF IsHotspot(total, entry.score)
             THEN <<[file           |-> Head(files),
                     issues         |-> entry.issues,
                     total_issues   |-> total,
                     severity_score |-> entry.score,
                     recommendation |-> HotspotRecommendation(entry.issues)]>> \o rest
             ELSE rest

\* The hotspots in the order the files are first named, unsorted
IdentifyHotspots_Unsorted(detail) ==
    LET by_file == GroupIssues(detail, EmptyDict)
    IN  Hotspots(by_file.keys, by_file)

\* by_file sorted by score, reverse=True, then filtered
IdentifyHotspots(detail) ==
    LET by_file    == GroupIssues(detail, EmptyDict)
        more(a, b) == by_file.val[a].score > by_file.val[b].score
    IN  Hotspots(StableSort(by_file.keys, more), by_file)

(***************************************************************************)
(* compute_service_boundaries                                              *)
(***************************************************************************)

\* "_".join(sorted(coupling.tables)[:2])
ClusterName(tables) ==
    LET names == SortedStrs(Range(tables))
    IN  IF Len(names) >= 2 THEN names[1] \o <<"_">> \o names[2]
        ELSE IF Len(names) = 1 THEN names[1] ELSE <<>>

\* for f in files: file_to_cluster[f] = name
RECURSIVE AssignAll(_, _, _)
AssignAll(files, name, f2c) ==
    IF files = <<>> THEN f2c
    ELSE AssignAll(Tail(files), name, DictSet(f2c, Head(files), name))

\* file_to_cluster[f] of the first f of files that has one (<<>> without one)
ExistingCluster(files, f2c) ==
    LET hits == {i \in 1..Len(files) : HasKey(f2c, files[i])}
    IN  IF hits = {} THEN <<>>
        ELSE f2c.val[files[CHOOSE i \in hits : \A j \in hits : i <= j]]

\* What one tight coupling does to the clusters
MergeOne(c, cl, f2c) ==
    LET files    == c.accessed_by_files
        existing == ExistingCluster(files, f2c)
    IN  IF existing # <<>>
        THEN [clusters        |-> DictSet(cl, existing, cl.val[existing] \cup Range(files)),
              file_to_cluster |-> AssignAll(files, existing, f2c)]
        ELSE [clusters        |-> DictSet(cl, ClusterName(c.tables), Range(files)),
              file_to_cluster |-> AssignAll(files, ClusterName(c.tables), f2c)]

\* The greedy pass over self.data_couplings
RECURSIVE MergeTight(_, _, _)
MergeTight(couplings, cl, f2c) ==
    IF couplings = <<>> THEN [clusters |-> cl, file_to_cluster |-> f2c]
    ELSE LET c == Head(couplings)
         IN  IF c.coupling_strength = "tight" /\ c.accessed_by_files # <<>>
             THEN LET m == MergeOne(c, cl, f2c)
                  IN  MergeTight(Tail(couplings), m.clusters, m.file_to_cluster)
             ELSE MergeTight(Tail(couplings), cl, f2c)

\* Unclustered files with tables go to the cluster of their first table
RECURSIVE AddByDominantTable(_, _, _, _)
AddByDominantTable(files, f2t, cl, f2c) ==
    IF files = <<>> THEN [clusters |-> cl, file_to_cluster |-> f2c]
    ELSE LET filename == Head(files)
             tables   == f2t.val[filename]
             dominant == SortedStrs(tables)[1]
         IN  IF ~HasKey(f2c, filename) /\ tables # {}
             THEN AddByDominantTable(Tail(files), f2t,
                      DictSet(cl, dominant, DictGet(cl, dominant, {}) \cup {filename}),
                      DictSet(f2c, filename, dominant))
             ELSE AddByDominantTable(Tail(files), f2t, cl, f2c)

\* routes[0] without its method, stripped of "/", up to the first "/".
\* str.split never returns an empty list, so 'misc' is never taken.
RouteDomain(route_key) ==
    LET first_route == IF " " \in Range(route_key)
                       THEN AfterFirstSpace(route_key) ELSE route_key
    IN  UpToFirst(StripSlashes(first_route), "/")

\* Unclustered files with routes go to the cluster of their first route
RECURSIVE AddByRouteDomain(_, _, _, _)
AddByRouteDomain(files, f2r, cl, f2c) ==
    IF files = <<>> THEN [clusters |-> cl, file_to_cluster |-> f2c]
    ELSE LET filename == Head(files)
             routes   == f2r.val[filename]
             domain   == RouteDomain(routes[1])
         IN  IF ~HasKey(f2c, filename) /\ routes # <<>>
             THEN AddByRouteDomain(Tail(files), f2r,
                      DictSet(cl, domain, DictGet(cl, domain, {}) \cup {filename}),
                      DictSet(f2c, filename, domain))
             ELSE AddByRouteDomain(Tail(files), f2r, cl, f2c)

\* clusters and file_to_cluster when _refine_clusters_to_modules is called
RawClusters(couplings, f2t, f2r) ==
    LET a == MergeTight(couplings, EmptyDict, EmptyDict)
        b == AddByDominantTable(f2t.keys, f2t, a.clusters, a.file_to_cluster)
    IN  AddByRouteDomain(f2r.keys, f2r, b.clusters, b.file_to_cluster)

(***************************************************************************)
(* _refine_clusters_to_modules                                             *)
(***************************************************************************)
S_categories == <<"c", "a", "t", "e", "g", "o", "r", "i", "e", "s">>
S_config == <<"c", "o", "n", "f", "i", "g">>
S_health == <<"h", "e", "a", "l", "t", "h">>
S_notifications == <<"n", "o", "t", "i", "f", "i", "c", "a", "t", "i", "o", "n", "s">>
S_search == <<"s", "e", "a", "r", "c", "h">>

\* domain_names, in the order the dict literal lists its keys
DomainNames ==
    <<<<<<"u", "s", "e", "r">>, S_users>>,
      <<S_users, S_users>>,
      <<S_auth, S_auth>>,
      <<<<"l", "o", "g", "i", "n">>, S_auth>>,
      <<<<"s", "e", "s", "s", "i", "o", "n">>, S_auth>>,
      <<<<"p", "r", "o", "d", "u", "c", "t">>, S_products>>,
      <<S_products, S_products>>,
      <<<<"i", "t", "e", "m">>, S_products>>,
      <<<<"i", "t", "e", "m", "s">>, S_products>>,
      <<<<"c", "a", "t", "e", "g", "o", "r", "y">>, S_categories>>,
      <<S_categories, S_categories>>,
      <<<<"c", "a", "t">>, S_categories>>,
      <<<<"o", "r", "d", "e", "r">>, S_orders>>,
      <<S_orders, S_orders>>,
      <<S_cart, S_cart>>,
      <<<<"b", "a", "s", "k", "e", "t">>, S_cart>>,
      <<<<"p", "a", "y", "m", "e", "n", "t">>, S_payments>>,
      <<S_payments, S_payments>>,
      <<<<"p", "a", "y">>, S_payments>>,
      <<S_search, S_search>>,
      <<S_config, S_config>>,
      <<<<"s", "e", "t", "t", "i", "n", "g", "s">>, S_config>>,
      <<<<"n", "o", "t", "i", "f", "i", "c", "a", "t", "i", "o", "n">>, S_notifications>>,
      <<S_notifications, S_notifications>>,
      <<<<"p", "u", "s", "h">>, S_notifications>>,
      <<<<"m", "a", "i", "l">>, S_notifications>>,
      <<<<"e", "m", "a", "i", "l">>, S_notifications>>>>

\* The canonical name of the last key of domain_names the name contains
NormalizeName_LastHit(cluster_name) ==
    LET normalized == Replace(Replace(Lower(cluster_name), <<"-">>, <<"_">>),
                              <<".", "p", "h", "p">>, <<>>)
        hits == {i \in 1..Len(DomainNames) : Contains(normalized, DomainNames[i][1])}
    IN  IF hits = {} THEN normalized
        ELSE DomainNames[CHOOSE i \in hits : \A j \in hits : i >= j][2]

\* cluster_name.lower().replace('-', '_').replace('.php', ''), then the
\* canonical name of the first key of domain_names it contains
NormalizeName(cluster_name) ==
    LET normalized == Replace(Replace(Lower(cluster_name), <<"-">>, <<"_">>),
                              <<".", "p", "h", "p">>, <<>>)
        hits == {i \in 1..Len(DomainNames) : Contains(normalized, DomainNames[i][1])}
    IN  IF hits = {} THEN normalized
        ELSE DomainNames[CHOOSE i \in hits : \A j \in hits : i <= j][2]

\* merged_clusters[normalized].update(files), cluster by cluster
RECURSIVE MergeClusters(_, _, _), MergeClusters_Overwrite(_, _, _)
MergeClusters_Overwrite(names, cl, merged) ==
    IF names = <<>> THEN merged
    ELSE MergeClusters_Overwrite(Tail(names), cl,
             DictSet(merged, NormalizeName(Head(names)), cl.val[Head(names)]))

MergeClusters(names, cl, merged) ==
    IF names = <<>> THEN merged
    ELSE LET normalized == NormalizeName(Head(names))
         IN  MergeClusters(Tail(names), cl,
                 DictSet(merged, normalized,
                         DictGet(merged, normalized, {}) \cup cl.val[Head(names)]))

TablesOfFiles(files, f2t) == UNION {DictGet(f2t, f, {}) : f \in files}

\* all_routes.extend(...) over the files, then sorted(list(set(all_routes)))
RoutesOfFiles(files, f2r) == UNION {Range(DictGet(f2r, f, <<>>)) : f \in files}

NoMetrics == [lines |-> 0, complexity |-> 0, security_issues |-> <<>>]

LinesOf(files, metrics) ==
    SumOver(files, [f \in files |-> DictGet(metrics, f, NoMetrics).lines])
ComplexityOf(files, metrics) ==
    SumOver(files, [f \in files |-> DictGet(metrics, f, NoMetrics).complexity])
SecurityCountOf(files, metrics) ==
    SumOver(files, [f \in files |-> Len(DictGet(metrics, f, NoMetrics).security_issues)])

\* for hotspot in self.security_hotspots: if hotspot.file in files:
\*     total_security = max(total_security, hotspot.total_issues)
RECURSIVE MaxWithHotspots(_, _, _)
MaxWithHotspots(total, hotspots, files) ==
    IF hotspots = <<>> THEN total
    ELSE MaxWithHotspots(
             IF Head(hotspots).file \in files
             THEN Max(total, Head(hotspots).total_issues) ELSE total,
             Tail(hotspots), files)

\* The count without the hotspots
SecurityOf_SumOnly(files, metrics, hotspots) == SecurityCountOf(files, metrics)

\* total_security: the files' own counts, then the maximum with the hotspots
SecurityOf(files, metrics, hotspots) ==
    MaxWithHotspots(SecurityCountOf(files, metrics), hotspots, files)

MigrationRisk(total_security, total_complexity) ==
    IF total_security > 10 \/ total_complexity > 300 THEN "high"
    ELSE IF total_security > 5 \/ total_complexity > 150 THEN "medium"
    ELSE "low"

EstimatedEffort(total_lines) ==
    IF total_lines > 1000 THEN "large"
    ELSE IF total_lines > 300 THEN "medium"
    ELSE "small"

\* A constant flag, whatever the service hints
IsMicroservice_Always(module_name, services) == TRUE

\* svc.get('service_name', '').replace('-service', '') == module_name
IsMicroservice(module_name, services) ==
    \E i \in 1..Len(services) :
        Replace(services[i].service_name,
                <<"-", "s", "e", "r", "v", "i", "c", "e">>, <<>>) = module_name

\* The parts the rationale sentence is joined from
Rationale(n_routes, all_tables, total_security) ==
    LET tables == SortedStrs(all_tables)
        parts ==
            (IF n_routes > 0
             THEN <<[text |-> "Handles routes", n |-> n_routes,
                     named |-> <<>>, more |-> FALSE]>> ELSE <<>>)
            \o (IF all_tables # {}
                THEN <<[text |-> "Accesses tables", n |-> Cardinality(all_tables),
                        named |-> SubSeq(tables, 1, Min(3, Len(tables))),
                        more |-> Cardinality(all_tables) > 3]>> ELSE <<>>)
            \o (IF total_security > 0
                THEN <<[text |-> "security issues to address", n |-> total_security,
                        named |-> <<>>, more |-> FALSE]>> ELSE <<>>)
    IN  IF parts # <<>> THEN parts ELSE "Groups related functionality"

\* Every other module that shares a table
Dependencies_AnyShared(module_name, all_tables, merged, f2t) ==
    SortedStrs({d \in Range(merged.keys) \ {module_name} :
                  all_tables \cap TablesOfFiles(merged.val[d], f2t) # {}})

\* The dependencies of module_name: users and products when tables are shared
Dependencies(module_name, all_tables, merged, f2t) ==
    LET shares(other) == all_tables \cap TablesOfFiles(merged.val[other], f2t) # {}
        others == Range(merged.keys) \ {module_name}
    IN  SortedStrs(
          {d \in {S_users} :
              module_name \in {S_orders, S_cart, S_payments}
              /\ d \in others /\ shares(d)}
          \cup
          {d \in {S_products} :
              module_name \in {S_orders, S_cart}
              /\ d \in others /\ shares(d)})

\* len(all_routes): one entry per file_to_routes entry of each member file
RouteCountOf(files, f2r) ==
    SumOver(files, [f \in files |-> Len(DictGet(f2r, f, <<>>))])

\* The tables of the first file alone
ModuleTables_FirstFileOnly(files, f2t) ==
    IF files = {} THEN {} ELSE DictGet(f2t, SortedStrs(files)[1], {})

\* all_tables.update(self.file_to_tables.get(filename, set())) over the files
ModuleTables(files, f2t) == TablesOfFiles(files, f2t)

BuildModule(module_name, files, prio, merged, metrics, f2r, f2t, hotspots, services) ==
    LET total_lines      == LinesOf(files, metrics)
        total_complexity == ComplexityOf(files, metrics)
        total_security   == SecurityOf(files, metrics, hotspots)
        all_tables       == ModuleTables(files, f2t)
    IN  [name             |-> module_name,
         rationale        |-> Rationale(RouteCountOf(files, f2r), all_tables,
                                       total_security),
         routes           |-> SortedStrs(RoutesOfFiles(files, f2r)),
         tables           |-> SortedStrs(all_tables),
         php_files        |-> SortedStrs(files),
         complexity_score |-> total_complexity,
         security_issues  |-> total_security,
         lines_of_code    |-> total_lines,
         priority         |-> prio,
         dependencies     |-> Dependencies(module_name, all_tables, merged, f2t),
         is_microservice  |-> IsMicroservice(module_name, services),
         migration_risk   |-> MigrationRisk(total_security, total_complexity),
         estimated_effort |-> EstimatedEffort(total_lines)]

\* priority_order
PriorityOrder ==
    <<S_config, S_health, S_auth, S_users, S_products, S_categories, S_search, S_cart, S_orders, S_payments>>

\* The index in priority_order, else 100 whatever the complexity
GetPriority_NameOnly(mod) ==
    IF mod.name \in Range(PriorityOrder)
    THEN (CHOOSE i \in 1..Len(PriorityOrder) : PriorityOrder[i] = mod.name) - 1
    ELSE 100

\* get_priority(mod): priority_order.index(mod.name), else 100 + complexity
GetPriority(mod) ==
    IF mod.name \in Range(PriorityOrder)
    THEN (CHOOSE i \in 1..Len(PriorityOrder) : PriorityOrder[i] = mod.name) - 1
    ELSE 100 + mod.complexity_score

\* The modules of the merged clusters, largest cluster first, then sorted by
\* get_priority and numbered 1..N
RefineClustersToModules(cl, metrics, f2r, f2t, hotspots, services) ==
    LET merged == MergeClusters(cl.keys, cl, EmptyDict)
        larger(a, b) == Cardinality(merged.val[a]) > Cardinality(merged.val[b])
        names  == SelectSeq(StableSort(merged.keys, larger),
                            LAMBDA n : merged.val[n] # {})
        built  == [i \in 1..Len(names) |->
                     BuildModule(names[i], merged.val[names[i]], i, merged,
                                 metrics, f2r, f2t, hotspots, services)]
        before(a, b) == GetPriority(a) < GetPriority(b)
        sorted == StableSort(built, before)
    IN  [i \in 1..Len(sorted) |-> [sorted[i] EXCEPT !.priority = i]]

(***************************************************************************)
(* generate_synthesis                                                      *)
(***************************************************************************)

\* The orders in which one process may iterate over a set of table names:
\* the iteration order of a Python set of strings follows the strings' hashes,
\* which change from process to process.
IterationOrders(S) ==
    {p \in [1..Cardinality(S) -> S] :
        \A i, j \in 1..Cardinality(S) : i # j => p[i] # p[j]}

\* list(S) under the iteration order h
ListOfSet(S, h) == SelectSeq(h, LAMBDA x : x \in S)

Take(seq, n) == SubSeq(seq, 1, Min(n, Len(seq)))

EstimateTotalEffort(mods) ==
    LET count(e) == Cardinality({i \in 1..Len(mods) : mods[i].estimated_effort = e})
        score == count("small") * 1 + count("medium") * 3 + count("large") * 7
    IN  IF score <= 10 THEN "small (1-2 weeks)"
        ELSE IF score <= 25 THEN "medium (2-4 weeks)"
        ELSE IF score <= 50 THEN "large (1-2 months)"
        ELSE "very large (2+ months)"

\* generate_nx_structure: the gateway's modules and the microservices
NxStructure(mods) ==
    LET names(ms) == [i \in 1..Len(ms) |-> ms[i].name]
    IN  [gateway_modules |-> names(SelectSeq(mods, LAMBDA m : ~m.is_microservice)),
         microservices   |-> names(SelectSeq(mods, LAMBDA m : m.is_microservice))]

\* generate_table_ownership
TableOwnership(mods) ==
    LET owners(t) == SelectSeq([i \in 1..Len(mods) |-> mods[i].name],
                               LAMBDA n : \E i \in 1..Len(mods) :
                                   mods[i].name = n /\ t \in Range(mods[i].tables))
        tables == UNION {Range(mods[i].tables) : i \in 1..Len(mods)}
    IN  [by_module     |-> {<<mods[i].name, mods[i].tables>> :
                              i \in {j \in 1..Len(mods) : mods[j].tables # <<>>}},
         shared_tables |-> {<<t, owners(t)>> : t \in {u \in tables : Len(owners(u)) > 1}}]

\* _get_sample_correlations
SampleCorrelations(r2f, f2t, h) ==
    LET routes == Take(r2f.keys, 5)
    IN  [i \in 1..Len(routes) |->
            [route  |-> routes[i],
             file   |-> r2f.val[routes[i]],
             tables |-> Take(ListOfSet(DictGet(f2t, r2f.val[routes[i]], {}), h), 5)]]

\* _generate_key_decisions
KeyDecisions(mods, couplings, hotspots, h) ==
    LET micro    == SelectSeq(mods, LAMBDA m : m.is_microservice)
        tight    == SelectSeq(couplings, LAMBDA c : c.coupling_strength = "tight")
        top      == Take(tight, 5)
        critical == SelectSeq(hotspots, LAMBDA x : x.severity_score >= 20)
    IN  (IF Len(micro) > 0
         THEN <<[decision |-> "Hybrid Architecture",
                 n        |-> Len(mods) - Len(micro),
                 affected |-> <<>>]>>
         ELSE <<[decision |-> "Modular Monolith", n |-> 0, affected |-> <<>>]>>)
        \o (IF tight # <<>>
            THEN <<[decision |-> "Shared Database for Tightly Coupled Tables",
                    n        |-> Len(tight),
                    affected |-> ListOfSet(
                        UNION {Range(top[i].tables) : i \in 1..Len(top)}, h)]>>
            ELSE <<>>)
        \o (IF critical # <<>>
            THEN <<[decision |-> "Security-First Migration",
                    n        |-> Len(critical),
                    affected |-> [i \in 1..Len(critical) |-> critical[i].file]]>>
            ELSE <<>>)
        \o (IF \E i \in 1..Len(mods) : mods[i].name = S_auth
            THEN <<[decision |-> "Auth Module First", n |-> 0, affected |-> <<>>]>>
            ELSE <<>>)

\* The synthesis document, generated at time now by a process whose sets
\* iterate in the order h
GenerateSynthesisDoc(now, h, mods, couplings, hotspots, schema, r2f, f2t, t2f) ==
    LET seq(ms) == [i \in 1..Len(ms) |-> ms[i]]
    IN  [meta |-> [generated_at |-> now, version |-> "1.0"],
         summary |->
            [total_modules          |-> Len(mods),
             total_microservices    |-> Len(SelectSeq(seq(mods), LAMBDA m : m.is_microservice)),
             total_gateway_modules  |-> Len(SelectSeq(seq(mods), LAMBDA m : ~m.is_microservice)),
             total_routes           |-> SumOver(1..Len(mods), [i \in 1..Len(mods) |-> Len(mods[i].routes)]),
             total_tables           |-> Cardinality(schema.tables),
             total_security_issues  |-> SumOver(1..Len(mods), [i \in 1..Len(mods) |-> mods[i].security_issues]),
             high_risk_modules      |-> SelectSeq([i \in 1..Len(mods) |-> mods[i].name],
                                           LAMBDA n : \E i \in 1..Len(mods) :
                                               mods[i].name = n /\ mods[i].migration_risk = "high"),
             estimated_total_effort |-> EstimateTotalEffort(mods)],
         module_recommendations |-> mods,
         migration_order |-> ComputeMigrationOrder(seq(mods)),
         nx_structure |-> NxStructure(seq(mods)),
         data_architecture |->
            [table_ownership |-> TableOwnership(mods),
             data_couplings  |-> Take(couplings, 20),
             coupling_summary |->
                [tight    |-> Len(SelectSeq(couplings, LAMBDA c : c.coupling_strength = "tight")),
                 moderate |-> Len(SelectSeq(couplings, LAMBDA c : c.coupling_strength = "moderate")),
                 loose    |-> Len(SelectSeq(couplings, LAMBDA c : c.coupling_strength = "loose"))]],
         security_analysis |->
            [hotspots       |-> Take(hotspots, 10),
             total_hotspots |-> Len(hotspots),
             critical_files |-> LET c == SelectSeq(hotspots, LAMBDA x : x.severity_score >= 20)
                                IN  [i \in 1..Len(c) |-> c[i].file]],
         correlations |->
            [route_to_file_count     |-> Len(r2f.keys),
             files_with_db_access    |-> Len(f2t.keys),
             tables_with_file_access |-> Len(t2f.keys),
             sample_correlations     |-> SampleCorrelations(r2f, f2t, h)],
         key_decisions |-> KeyDecisions(seq(mods), couplings, hotspots, h)]

(***************************************************************************)
(* main() and run(): one action per stage                                  *)
(***************************************************************************)
MaxClock == 2

orderVars == <<remaining, migrated, migration_order>>
inputVars == <<disk, run_no, first_synthesis>>

\* The documents in the order load_all_data opens them
LoadOrder == <<"legacy", "routes", "schema", "services">>

\* The documents json.load raises on: those that are there and are not JSON
\* (the optional ones are opened without any try)
JsonRaises(d) == {n \in d.malformed : d[n].exists}

\* The documents load_all_data has assigned before json.load raises
LoadedBeforeRaise(d) ==
    LET first == CHOOSE i \in 1..Len(LoadOrder) :
                    /\ LoadOrder[i] \in JsonRaises(d)
                    /\ \A j \in 1..(i - 1) : LoadOrder[j] \notin JsonRaises(d)
    IN  {LoadOrder[j] : j \in 1..(first - 1)}

\* A file record of a keyed document that has no 'path' of its own
NoPath == <<"">>

\* all_files as the list correlate_files_to_tables iterates over: a mapping
\* becomes [{"path": k, **v} for k, v in all_files.items()]
AllFilesList(doc) ==
    IF doc.keyed
    THEN [i \in 1..Len(doc.all_files) |->
            [doc.all_files[i] EXCEPT
                !.path = IF @ = NoPath THEN doc.keys[i] ELSE @]]
    ELSE doc.all_files

\* Iterating over a mapping yields its keys, and route.get / svc.get on a str
\* raises AttributeError
IterationRaises(keyed, entries) == keyed /\ Len(entries) > 0

\* The modules _refine_clusters_to_modules would build: the names it
\* normalizes the raw clusters to that have a file
ModulesToBuild(cl) ==
    LET merged == MergeClusters(cl.keys, cl, EmptyDict)
    IN  {n \in Range(merged.keys) : merged.val[n] # {}}

\* load_all_data, the mandatory document being there.  An optional document
\* that is not there leaves the constructor's empty dict.
LoadAllData ==
    /\ pc = "start"
    /\ disk.dir
    /\ disk.legacy.exists
    /\ JsonRaises(disk) = {}
    /\ legacy_analysis' = disk.legacy
    /\ routes_data' = disk.routes
    /\ database_schema' = disk.schema
    /\ extracted_services' = disk.services
    /\ stages' = Append(stages, "load_all_data")
    /\ pc' = "loaded"
    /\ UNCHANGED <<route_to_file, file_to_routes, file_to_tables, table_to_files,
                   file_metrics, data_couplings, security_hotspots, clusters,
                   file_to_cluster, module_recommendations, synthesis, written,
                   exit_code, orderVars, inputVars>>

\* load_all_data returns False at the missing mandatory document, and run()
\* returns False at once
LoadAllDataMissing ==
    /\ pc = "start"
    /\ disk.dir
    /\ ~disk.legacy.exists
    /\ stages' = Append(stages, "load_all_data")
    /\ pc' = "run_failed"
    /\ UNCHANGED <<legacy_analysis, routes_data, database_schema,
                   extracted_services, route_to_file, file_to_routes,
                   file_to_tables, table_to_files, file_metrics, data_couplings,
                   security_hotspots, clusters, file_to_cluster,
                   module_recommendations, synthesis, written, exit_code,
                   orderVars, inputVars>>

\* json.load raises in load_all_data: nothing catches it, the interpreter
\* prints the traceback and exits with status 1
LoadAllDataRaises ==
    /\ pc = "start"
    /\ disk.dir
    /\ disk.legacy.exists
    /\ JsonRaises(disk) # {}
    /\ legacy_analysis' = IF "legacy" \in LoadedBeforeRaise(disk) THEN disk.legacy
                          ELSE legacy_analysis
    /\ routes_data' = IF "routes" \in LoadedBeforeRaise(disk) THEN disk.routes
                      ELSE routes_data
    /\ database_schema' = IF "schema" \in LoadedBeforeRaise(disk) THEN disk.schema
                          ELSE database_schema
    /\ extracted_services' = extracted_services
    /\ stages' = Append(stages, "load_all_data")
    /\ exit_code' = 1
    /\ pc' = "exited"
    /\ UNCHANGED <<route_to_file, file_to_routes, file_to_tables, table_to_files,
                   file_metrics, data_couplings, security_hotspots, clusters,
                   file_to_cluster, module_recommendations, synthesis, written,
                   orderVars, inputVars>>

\* The routes are a non-empty mapping: the first route.get raises, and the
\* process exits with status 1
CorrelateRoutesToFilesRaises ==
    /\ pc = "loaded"
    /\ IterationRaises(routes_data.keyed, routes_data.routes)
    /\ stages' = Append(stages, "correlate_routes_to_files")
    /\ exit_code' = 1
    /\ pc' = "exited"
    /\ UNCHANGED <<legacy_analysis, routes_data, database_schema,
                   extracted_services, route_to_file, file_to_routes,
                   file_to_tables, table_to_files, file_metrics, data_couplings,
                   security_hotspots, clusters, file_to_cluster,
                   module_recommendations, synthesis, written, orderVars,
                   inputVars>>

CorrelateRoutesToFiles ==
    /\ pc = "loaded"
    /\ ~IterationRaises(routes_data.keyed, routes_data.routes)
    /\ LET r == CorrelateRoutes(routes_data.routes, route_to_file, file_to_routes)
       IN  /\ route_to_file' = r.route_to_file
           /\ file_to_routes' = r.file_to_routes
    /\ stages' = Append(stages, "correlate_routes_to_files")
    /\ pc' = "routes_correlated"
    /\ UNCHANGED <<legacy_analysis, routes_data, database_schema,
                   extracted_services, file_to_tables, table_to_files,
                   file_metrics, data_couplings, security_hotspots, clusters,
                   file_to_cluster, module_recommendations, synthesis, written,
                   exit_code, orderVars, inputVars>>

CorrelateFilesToTables ==
    /\ pc = "routes_correlated"
    /\ LET r == CorrelateFiles(AllFilesList(legacy_analysis), database_schema.tables,
                               file_metrics, file_to_tables, table_to_files)
       IN  /\ file_metrics' = r.file_metrics
           /\ file_to_tables' = r.file_to_tables
           /\ table_to_files' = r.table_to_files
    /\ stages' = Append(stages, "correlate_files_to_tables")
    /\ pc' = "files_correlated"
    /\ UNCHANGED <<legacy_analysis, routes_data, database_schema,
                   extracted_services, route_to_file, file_to_routes,
                   data_couplings, security_hotspots, clusters, file_to_cluster,
                   module_recommendations, synthesis, written, exit_code,
                   orderVars, inputVars>>

AnalyzeDataCoupling ==
    /\ pc = "files_correlated"
    /\ data_couplings' = data_couplings \o AnalyzeCoupling(file_to_tables, table_to_files)
    /\ stages' = Append(stages, "analyze_data_coupling")
    /\ pc' = "coupling_analyzed"
    /\ UNCHANGED <<legacy_analysis, routes_data, database_schema,
                   extracted_services, route_to_file, file_to_routes,
                   file_to_tables, table_to_files, file_metrics,
                   security_hotspots, clusters, file_to_cluster,
                   module_recommendations, synthesis, written, exit_code,
                   orderVars, inputVars>>

IdentifySecurityHotspots ==
    /\ pc = "coupling_analyzed"
    /\ security_hotspots' =
           security_hotspots \o IdentifyHotspots(legacy_analysis.security_issues_detail)
    /\ stages' = Append(stages, "identify_security_hotspots")
    /\ pc' = "hotspots_identified"
    /\ UNCHANGED <<legacy_analysis, routes_data, database_schema,
                   extracted_services, route_to_file, file_to_routes,
                   file_to_tables, table_to_files, file_metrics, data_couplings,
                   clusters, file_to_cluster, module_recommendations, synthesis,
                   written, exit_code, orderVars, inputVars>>

\* The services are a non-empty mapping: svc.get raises for the first module
\* that is built, before any module is appended, and the process exits
\* with status 1
ComputeServiceBoundariesRaises ==
    /\ pc = "hotspots_identified"
    /\ IterationRaises(extracted_services.keyed, extracted_services.services)
    /\ LET r == RawClusters(data_couplings, file_to_tables, file_to_routes)
       IN  /\ ModulesToBuild(r.clusters) # {}
           /\ clusters' = r.clusters
           /\ file_to_cluster' = r.file_to_cluster
    /\ stages' = Append(stages, "compute_service_boundaries")
    /\ exit_code' = 1
    /\ pc' = "exited"
    /\ UNCHANGED <<legacy_analysis, routes_data, database_schema,
                   extracted_services, route_to_file, file_to_routes,
                   file_to_tables, table_to_files, file_metrics, data_couplings,
                   security_hotspots, module_recommendations, synthesis, written,
                   orderVars, inputVars>>

\* compute_service_boundaries, _refine_clusters_to_modules included
ComputeServiceBoundaries ==
    /\ pc = "hotspots_identified"
    /\ LET r == RawClusters(data_couplings, file_to_tables, file_to_routes)
       IN  /\ ~(/\ IterationRaises(extracted_services.keyed,
                                   extracted_services.services)
                /\ ModulesToBuild(r.clusters) # {})
           /\ clusters' = r.clusters
           /\ file_to_cluster' = r.file_to_cluster
           /\ module_recommendations' =
                  module_recommendations \o
                  RefineClustersToModules(r.clusters, file_metrics, file_to_routes,
                                          file_to_tables, security_hotspots,
                                          extracted_services.services)
    /\ stages' = Append(stages, "compute_service_boundaries")
    /\ pc' = "boundaries_computed"
    /\ UNCHANGED <<legacy_analysis, routes_data, database_schema,
                   extracted_services, route_to_file, file_to_routes,
                   file_to_tables, table_to_files, file_metrics, data_couplings,
                   security_hotspots, synthesis, written, exit_code, orderVars,
                   inputVars>>

\* generate_synthesis: datetime.now() is not before an earlier run's, and the
\* sets of this process iterate in some order h
GenerateSynthesis ==
    /\ pc = "boundaries_computed"
    /\ \E now \in 1..MaxClock, h \in IterationOrders(database_schema.tables) :
          /\ run_no = 2 => now >= first_synthesis.meta.generated_at
          /\ synthesis' = GenerateSynthesisDoc(now, h, module_recommendations,
                              data_couplings, security_hotspots, database_schema,
                              route_to_file, file_to_tables, table_to_files)
    /\ migration_order' = synthesis'.migration_order
    /\ stages' = Append(stages, "generate_synthesis")
    /\ pc' = "synthesized"
    /\ UNCHANGED <<legacy_analysis, routes_data, database_schema,
                   extracted_services, route_to_file, file_to_routes,
                   file_to_tables, table_to_files, file_metrics, data_couplings,
                   security_hotspots, clusters, file_to_cluster,
                   module_recommendations, written, exit_code, remaining,
                   migrated, inputVars>>

\* save_outputs writes both files; run() then returns True
SaveOutputs ==
    /\ pc = "synthesized"
    /\ written' = written \cup {"SYNTHESIS.json", "SYNTHESIS.md"}
    /\ stages' = Append(stages, "save_outputs")
    /\ pc' = "run_succeeded"
    /\ UNCHANGED <<legacy_analysis, routes_data, database_schema,
                   extracted_services, route_to_file, file_to_routes,
                   file_to_tables, table_to_files, file_metrics, data_couplings,
                   security_hotspots, clusters, file_to_cluster,
                   module_recommendations, synthesis, exit_code, orderVars,
                   inputVars>>

\* An exit status that ignores the result of run()
ExitCode_AlwaysZero(success) == 0

\* return 0 if success else 1
ExitCode(success) == IF success THEN 0 ELSE 1

\* main() returns 1 at once when the output directory is not there
MainNoDirectory ==
    /\ pc = "start"
    /\ ~disk.dir
    /\ exit_code' = 1
    /\ pc' = "exited"
    /\ UNCHANGED <<legacy_analysis, routes_data, database_schema,
                   extracted_services, route_to_file, file_to_routes,
                   file_to_tables, table_to_files, file_metrics, data_couplings,
                   security_hotspots, clusters, file_to_cluster,
                   module_recommendations, synthesis, written, stages,
                   orderVars, inputVars>>

\* main() returns after run()
MainReturn ==
    /\ pc \in {"run_succeeded", "run_failed"}
    /\ exit_code' = ExitCode(pc = "run_succeeded")
    /\ pc' = "exited"
    /\ UNCHANGED <<legacy_analysis, routes_data, database_schema,
                   extracted_services, route_to_file, file_to_routes,
                   file_to_tables, table_to_files, file_metrics, data_couplings,
                   security_hotspots, clusters, file_to_cluster,
                   module_recommendations, synthesis, written, stages,
                   orderVars, inputVars>>

Next ==
    \/ LoadAllData
    \/ LoadAllDataMissing
    \/ CorrelateRoutesToFiles
    \/ CorrelateFilesToTables
    \/ AnalyzeDataCoupling
    \/ IdentifySecurityHotspots
    \/ ComputeServiceBoundaries
    \/ GenerateSynthesis
    \/ SaveOutputs
    \/ MainNoDirectory
    \/ MainReturn

\* A fresh process over the documents docs
InitPipeline(docs) ==
    /\ disk \in docs \cup {NoDisk}
    /\ legacy_analysis = NoLegacy
    /\ routes_data = NoRoutes
    /\ database_schema = NoSchema
    /\ extracted_services = NoServices
    /\ route_to_file = EmptyDict
    /\ file_to_routes = EmptyDict
    /\ file_to_tables = EmptyDict
    /\ table_to_files = EmptyDict
    /\ file_metrics = EmptyDict
    /\ data_couplings = <<>>
    /\ security_hotspots = <<>>
    /\ clusters = EmptyDict
    /\ file_to_cluster = EmptyDict
    /\ module_recommendations = <<>>
    /\ remaining = <<>>
    /\ migrated = {}
    /\ migration_order = <<>>
    /\ synthesis = "none"
    /\ written = {}
    /\ exit_code = -1
    /\ stages = <<>>
    /\ run_no = 1
    /\ first_synthesis = "none"
    /\ pc = "start"

(***************************************************************************)
(* The documents the runs are checked on                                   *)
(***************************************************************************)
NumFiles == 3
ClusterFiles == 4
CouplingFiles == 8
RepeatFiles == 2

\* src/a, src/b, ...: the i-th file of the file-analysis document
FilePath(i) == <<"s", "r", "c", "/", Alphabet[11 + i]>>

\* The i-th file record: its metrics grow with i so that a sum tells its
\* summands; tables are the tables its database_patterns name
FileRecord(i, tables) ==
    [path                  |-> FilePath(i),
     total_lines           |-> 150 * 2^(i - 1),
     cyclomatic_complexity |-> 40 * 2^(i - 1),
     security_issues       |-> [k \in 1..(i - 1) |-> [type |-> S_xss, severity |-> <<"l", "o", "w">>]],
     database_patterns     |-> [k \in 1..Len(tables) |-> [table |-> tables[k]]]]

FileLists(n, tableChoices) ==
    {[i \in 1..n |-> FileRecord(i, t[i])] : t \in [1..n -> tableChoices]}

LegacyDocs(fileLists, details) ==
    {NoLegacy} \cup
    {[exists |-> TRUE, keyed |-> FALSE, keys |-> <<>>, all_files |-> fs,
      security_issues_detail |-> d] :
        fs \in fileLists, d \in details}

SchemaDoc(tables) == [exists |-> TRUE, tables |-> tables]
RoutesDoc(routes) == [exists |-> TRUE, keyed |-> FALSE, routes |-> routes]
ServicesDoc(names) ==
    [exists |-> TRUE, keyed |-> FALSE,
     services |-> [i \in 1..Len(names) |-> [service_name |-> names[i]]]]

Disks(legacyDocs, routesDocs, schemaDocs, servicesDocs) ==
    [dir : {TRUE}, malformed : {{}}, legacy : legacyDocs, routes : routesDocs,
     schema : schemaDocs, services : servicesDocs]

T_cart        == <<"c", "a", "r", "t">>
T_cart_order  == <<"c", "a", "r", "t", "_", "o", "r", "d", "e", "r">>
T_items       == <<"i", "t", "e", "m", "s">>
T_order_items == <<"o", "r", "d", "e", "r", "_", "i", "t", "e", "m", "s">>
T_unknown     == <<"s", "e", "s", "s", "i", "o", "n", "s">>

SchemaTables == {T_cart, T_cart_order, T_items, T_order_items}

\* What one file may reference (sessions is not a table of the schema)
TableChoices ==
    {<<>>,
     <<T_cart, T_cart_order>>,
     <<T_cart, T_items>>,
     <<T_cart, T_items, T_order_items, T_unknown>>}

\* One critical finding in the first file, which lists none of its own
DetailChoices ==
    {<<>>, <<[file |-> FilePath(1), type |-> S_sql_injection, severity |-> SeverityWeights.keys[1]]>>}

\* A route to file n, and a route at "/" to a file the file-analysis document
\* does not have
RouteChoices(n) ==
    {<<>>,
     <<[target |-> FilePath(n), method |-> <<"G", "E", "T">>,
        path |-> <<"/", "c", "a", "r", "t", "/", "a", "d", "d">>]>>,
     <<[target |-> <<"w", "e", "b", "/", "z">>, method |-> <<"P", "O", "S", "T">>,
        path |-> <<"/">>]>>}

\* The runs of the whole pipeline
SpecDisks ==
    Disks(LegacyDocs(FileLists(NumFiles, TableChoices), DetailChoices),
          {RoutesDoc(r) : r \in RouteChoices(NumFiles)},
          {SchemaDoc(SchemaTables)},
          {NoServices, ServicesDoc(<<<<"o", "r", "d", "e", "r", "s", "-", "s", "e", "r", "v", "i", "c", "e">>>>)})

Init == InitPipeline(SpecDisks)

Spec == Init /\ [][Next]_vars

(***************************************************************************)
(* Runs over more files with tables only, for the clustering                *)
(***************************************************************************)
ClusterTableChoices ==
    TableChoices \cup {<<T_cart, T_cart_order, T_order_items>>,
                       <<T_cart, T_order_items>>, <<T_cart_order, T_items>>}

ClusterDisks ==
    Disks(LegacyDocs(FileLists(ClusterFiles, ClusterTableChoices), {<<>>}),
          {NoRoutes}, {SchemaDoc(SchemaTables)}, {NoServices})

InitClusters == InitPipeline(ClusterDisks)

SpecClusters == InitClusters /\ [][Next]_vars

(***************************************************************************)
(* The same documents synthesized twice                                    *)
(***************************************************************************)

\* A second process is started on the documents of the first
RunAgain ==
    /\ pc = "exited"
    /\ run_no = 1
    /\ exit_code = 0
    /\ first_synthesis' = synthesis
    /\ run_no' = 2
    /\ legacy_analysis' = NoLegacy
    /\ routes_data' = NoRoutes
    /\ database_schema' = NoSchema
    /\ extracted_services' = NoServices
    /\ route_to_file' = EmptyDict
    /\ file_to_routes' = EmptyDict
    /\ file_to_tables' = EmptyDict
    /\ table_to_files' = EmptyDict
    /\ file_metrics' = EmptyDict
    /\ data_couplings' = <<>>
    /\ security_hotspots' = <<>>
    /\ clusters' = EmptyDict
    /\ file_to_cluster' = EmptyDict
    /\ module_recommendations' = <<>>
    /\ migration_order' = <<>>
    /\ synthesis' = "none"
    /\ exit_code' = -1
    /\ stages' = <<>>
    /\ pc' = "start"
    /\ UNCHANGED <<disk, written, remaining, migrated>>

RepeatDisks ==
    Disks(LegacyDocs(FileLists(RepeatFiles, TableChoices), DetailChoices),
          {RoutesDoc(r) : r \in RouteChoices(RepeatFiles)},
          {SchemaDoc(SchemaTables)}, {NoServices})

InitRepeat == InitPipeline(RepeatDisks)

NextRepeat == Next \/ RunAgain

SpecRepeat == InitRepeat /\ [][NextRepeat]_vars

(***************************************************************************)
(* analyze_data_coupling on its own                                        *)
(***************************************************************************)
CouplingTableChoices == <<<<>>, <<T_cart>>, <<T_items>>, <<T_cart, T_items>>>>

\* The file lists in which the files come in the order of what they reference
CouplingFileLists ==
    {[i \in 1..CouplingFiles |-> FileRecord(i, CouplingTableChoices[t[i]])] :
        t \in {u \in [1..CouplingFiles -> 1..Len(CouplingTableChoices)] :
                  \A i \in 1..(CouplingFiles - 1) : u[i] <= u[i + 1]}}

CouplingDisks ==
    Disks(LegacyDocs(CouplingFileLists, {<<>>}) \ {NoLegacy},
          {NoRoutes}, {SchemaDoc(SchemaTables)}, {NoServices})

\* The process after load_all_data and correlate_routes_to_files, no routes
\* document being there
InitCoupling ==
    /\ disk \in CouplingDisks
    /\ legacy_analysis = disk.legacy
    /\ routes_data = disk.routes
    /\ database_schema = disk.schema
    /\ extracted_services = disk.services
    /\ route_to_file = EmptyDict
    /\ file_to_routes = EmptyDict
    /\ file_to_tables = EmptyDict
    /\ table_to_files = EmptyDict
    /\ file_metrics = EmptyDict
    /\ data_couplings = <<>>
    /\ security_hotspots = <<>>
    /\ clusters = EmptyDict
    /\ file_to_cluster = EmptyDict
    /\ module_recommendations = <<>>
    /\ remaining = <<>>
    /\ migrated = {}
    /\ migration_order = <<>>
    /\ synthesis = "none"
    /\ written = {}
    /\ exit_code = -1
    /\ stages = <<"load_all_data", "correlate_routes_to_files">>
    /\ run_no = 1
    /\ first_synthesis = "none"
    /\ pc = "routes_correlated"

NextCoupling == CorrelateFilesToTables \/ AnalyzeDataCoupling

SpecCoupling == InitCoupling /\ [][NextCoupling]_vars

(***************************************************************************)
(* Runs over documents that are absent, not JSON, or keyed mappings         *)
(***************************************************************************)

\* The file-analysis document with all_files as a mapping from path to the
\* record without its path
KeyedLegacy(doc) ==
    [doc EXCEPT !.keyed = TRUE,
                !.keys = [i \in 1..Len(doc.all_files) |-> doc.all_files[i].path],
                !.all_files = [i \in 1..Len(doc.all_files) |->
                                  [doc.all_files[i] EXCEPT !.path = NoPath]]]

\* The routes or the services as a mapping
Keyed(doc) == [doc EXCEPT !.keyed = TRUE]

DocumentTableChoices == {<<>>, <<T_cart, T_items>>}

S_products_service ==
    <<"p", "r", "o", "d", "u", "c", "t", "s", "-", "s", "e", "r", "v", "i", "c", "e">>

DocumentLegacyDocs ==
    LET listed == LegacyDocs(FileLists(RepeatFiles, DocumentTableChoices), {<<>>})
    IN  listed \cup {KeyedLegacy(d) : d \in listed \ {NoLegacy}}

DocumentRoutesDocs ==
    LET listed == {RoutesDoc(r) : r \in RouteChoices(RepeatFiles)}
    IN  {NoRoutes} \cup listed \cup {Keyed(d) : d \in listed}

DocumentServicesDocs ==
    {NoServices, ServicesDoc(<<S_products_service>>),
     Keyed(ServicesDoc(<<S_products_service>>))}

\* Every document absent or there, listed or keyed, and at most one of them
\* not JSON
DocumentDisks ==
    [dir : {TRUE},
     malformed : {{}} \cup {{n} : n \in Range(LoadOrder)},
     legacy : DocumentLegacyDocs,
     routes : DocumentRoutesDocs,
     schema : {NoSchema, SchemaDoc(SchemaTables)},
     services : DocumentServicesDocs]

InitDocuments == InitPipeline(DocumentDisks)

NextDocuments ==
    \/ Next
    \/ LoadAllDataRaises
    \/ CorrelateRoutesToFilesRaises
    \/ ComputeServiceBoundariesRaises

SpecDocuments == InitDocuments /\ [][NextDocuments]_vars

(***************************************************************************)
(* identify_security_hotspots on its own                                   *)
(***************************************************************************)

\* The severities as the findings spell them: as the keys of
\* severity_weights, or with capitals
SeveritySpellings ==
    {SeverityWeights.keys,
     <<<<"C", "r", "i", "t", "i", "c", "a", "l">>, <<"H", "I", "G", "H">>,
       SeverityWeights.keys[3], SeverityWeights.keys[4]>>}

\* How many critical, high, medium and low findings the first and the second
\* file have
FindingCounts ==
    <<[critical : {0, 1, 5}, high : {0, 1, 2}, medium : {0, 1, 7}, low : {0, 1, 2, 3}],
      [critical : {0, 1}, high : {0, 1}, medium : {0, 1}, low : {0, 3}]>>

\* The findings of file i: sql_injection for critical and high, xss for
\* medium and low
FindingsOf(i, k, names) ==
    LET finding(type, sev) == [file |-> FilePath(i), type |-> type, severity |-> sev]
    IN  [j \in 1..k.critical |-> finding(S_sql_injection, names[1])]
        \o [j \in 1..k.high |-> finding(S_sql_injection, names[2])]
        \o [j \in 1..k.medium |-> finding(S_xss, names[3])]
        \o [j \in 1..k.low |-> finding(S_xss, names[4])]

HotspotDetails ==
    {FindingsOf(1, k1, n) \o FindingsOf(2, k2, n) :
        k1 \in FindingCounts[1], k2 \in FindingCounts[2], n \in SeveritySpellings}

HotspotDisks ==
    Disks(LegacyDocs({<<>>}, HotspotDetails) \ {NoLegacy},
          {NoRoutes}, {SchemaDoc(SchemaTables)}, {NoServices})

\* The process after analyze_data_coupling, the file-analysis document
\* listing no file
InitAfterCoupling(disks) ==
    /\ disk \in disks
    /\ legacy_analysis = disk.legacy
    /\ routes_data = disk.routes
    /\ database_schema = disk.schema
    /\ extracted_services = disk.services
    /\ route_to_file = EmptyDict
    /\ file_to_routes = EmptyDict
    /\ file_to_tables = EmptyDict
    /\ table_to_files = EmptyDict
    /\ file_metrics = EmptyDict
    /\ data_couplings = <<>>
    /\ security_hotspots = <<>>
    /\ clusters = EmptyDict
    /\ file_to_cluster = EmptyDict
    /\ module_recommendations = <<>>
    /\ remaining = <<>>
    /\ migrated = {}
    /\ migration_order = <<>>
    /\ synthesis = "none"
    /\ written = {}
    /\ exit_code = -1
    /\ stages = <<"load_all_data", "correlate_routes_to_files",
                  "correlate_files_to_tables", "analyze_data_coupling">>
    /\ run_no = 1
    /\ first_synthesis = "none"
    /\ pc = "coupling_analyzed"

InitHotspots == InitAfterCoupling(HotspotDisks)

NextHotspots == IdentifySecurityHotspots

SpecHotspots == InitHotspots /\ [][NextHotspots]_vars

(***************************************************************************)
(* Runs over the tables users, products and orders                         *)
(***************************************************************************)

DependencyTableChoices ==
    {<<S_users>>, <<S_products>>, <<S_orders>>, <<S_orders, S_users>>,
     <<S_orders, S_products>>, <<S_orders, S_products, S_users>>}

DependencyDisks ==
    Disks(LegacyDocs(FileLists(NumFiles, DependencyTableChoices), {<<>>}),
          {NoRoutes}, {SchemaDoc({S_users, S_products, S_orders})}, {NoServices})

InitDependencies == InitPipeline(DependencyDisks)

SpecDependencies == InitDependencies /\ [][Next]_vars

(***************************************************************************)
(* identify_security_hotspots over findings of several types               *)
(***************************************************************************)

\* The most findings of one type
MaxPerType == 2

S_broken_auth == <<"b", "r", "o", "k", "e", "n", "_", "a", "u", "t", "h">>
S_csrf == <<"c", "s", "r", "f">>
S_file_inclusion == <<"f", "i", "l", "e", "_", "i", "n", "c", "l", "u", "s", "i", "o", "n">>

\* The orders in which the document first names the types
TypeOrders ==
    {<<S_sql_injection, S_xss, S_broken_auth, S_csrf, S_file_inclusion>>,
     <<S_file_inclusion, S_csrf, S_broken_auth, S_xss, S_sql_injection>>,
     <<S_csrf, S_file_inclusion, S_xss, S_sql_injection, S_broken_auth>>}

\* The findings of src/a: count[i] findings of the i-th type, of high severity
RECURSIVE TypedFindings(_, _)
TypedFindings(types, count) ==
    IF types = <<>> THEN <<>>
    ELSE [j \in 1..count[Len(count) - Len(types) + 1] |->
            [file |-> FilePath(1), type |-> Head(types),
             severity |-> SeverityWeights.keys[2]]]
         \o TypedFindings(Tail(types), count)

RecommendationDetails ==
    {TypedFindings(o, c) : o \in TypeOrders, c \in [1..5 -> 0..MaxPerType]}

RecommendationDisks ==
    Disks(LegacyDocs({<<>>}, RecommendationDetails) \ {NoLegacy},
          {NoRoutes}, {SchemaDoc(SchemaTables)}, {NoServices})

InitRecommendations == InitAfterCoupling(RecommendationDisks)

SpecRecommendations == InitRecommendations /\ [][NextHotspots]_vars

(***************************************************************************)
(* Runs over routes alone: the clusters are named by the route paths       *)
(***************************************************************************)

\* The first path segments of the routes: every key of domain_names, and
\* names with several keys, with none, with capitals, '-' or '.php'
SegmentNames ==
    {DomainNames[i][1] : i \in 1..Len(DomainNames)}
    \cup {<<"u", "s", "e", "r", "_", "s", "e", "s", "s", "i", "o", "n", "s">>,
          <<"s", "e", "s", "s", "i", "o", "n", "_", "i", "t", "e", "m", "s">>,
          <<"o", "r", "d", "e", "r", "_", "i", "t", "e", "m", "s">>,
          <<"u", "s", "e", "r", "-", "l", "i", "s", "t">>,
          <<"i", "n", "d", "e", "x", ".", "p", "h", "p">>,
          <<"S", "H", "O", "P">>,
          <<"s", "h", "o", "p">>,
          <<"f", "o", "o">>, <<>>}

\* What a second route may name
SecondSegmentNames ==
    {S_users, <<"u", "s", "e", "r">>, <<"n", "o", "t", "i", "f", "i", "c", "a", "t", "i", "o", "n">>,
     <<"s", "h", "o", "p">>, <<"f", "o", "o">>, <<>>}

RouteTo(i, segment) ==
    [target |-> FilePath(i), method |-> <<"G", "E", "T">>, path |-> <<"/">> \o segment]

\* One route, or two routes to the two files or to one of them
SegmentRoutes ==
    {<<RouteTo(i, n)>> : i \in 1..2, n \in SegmentNames}
    \cup {<<RouteTo(i, n), RouteTo(j, m)>> :
            i \in 1..2, j \in 1..2, n \in SegmentNames, m \in SecondSegmentNames}

SegmentDisks ==
    Disks(LegacyDocs({<<FileRecord(1, <<>>), FileRecord(2, <<>>)>>}, {<<>>}),
          {RoutesDoc(r) : r \in SegmentRoutes}, {NoSchema}, {NoServices})

InitSegments == InitPipeline(SegmentDisks)

SpecSegments == InitSegments /\ [][Next]_vars

(***************************************************************************)
(* Runs over the tables orders and order_items                             *)
(***************************************************************************)
OrderTableChoices ==
    {<<>>, <<S_orders>>, <<T_order_items>>, <<S_orders, T_order_items>>}

OrderTableDisks ==
    Disks(LegacyDocs(FileLists(NumFiles, OrderTableChoices), {<<>>}),
          {NoRoutes}, {SchemaDoc({S_orders, T_order_items})}, {NoServices})

InitOrderTables == InitPipeline(OrderTableDisks)

SpecOrderTables == InitOrderTables /\ [][Next]_vars

(***************************************************************************)
(* Properties of the pipeline, stated over the documents on disk           *)
(***************************************************************************)
Done(stage) == stage \in Range(stages)

DocFiles == {disk.legacy.all_files[i] : i \in 1..Len(disk.legacy.all_files)}

\* The records of the file-analysis document whose path has basename f
RecordsOf(f) == {r \in DocFiles : Basename(r.path) = f}

\* The schema tables the document says file f references
DocTablesOf(f) ==
    UNION {{r.database_patterns[k].table : k \in 1..Len(r.database_patterns)} :
              r \in RecordsOf(f)}
        \cap disk.schema.tables

DocLinesOf(f) == SumOver(RecordsOf(f), [r \in RecordsOf(f) |-> r.total_lines])
DocComplexityOf(f) == SumOver(RecordsOf(f), [r \in RecordsOf(f) |-> r.cyclomatic_complexity])
DocIssuesOf(f) == SumOver(RecordsOf(f), [r \in RecordsOf(f) |-> Len(r.security_issues)])

Modules == Range(module_recommendations)
ModuleFiles(m) == Range(m.php_files)

DocSumLines(m) == SumOver(ModuleFiles(m), [f \in ModuleFiles(m) |-> DocLinesOf(f)])
DocSumComplexity(m) ==
    SumOver(ModuleFiles(m), [f \in ModuleFiles(m) |-> DocComplexityOf(f)])
DocSumIssues(m) == SumOver(ModuleFiles(m), [f \in ModuleFiles(m) |-> DocIssuesOf(f)])

\* The greatest total_issues of a hotspot among the files of m, 0 without one
GreatestHotspot(m) ==
    LET totals == {h.total_issues :
                      h \in {x \in Range(security_hotspots) :
                                 x.file \in ModuleFiles(m)}}
    IN  IF totals = {} THEN 0
        ELSE CHOOSE t \in totals : \A u \in totals : u <= t

\* C4: after compute_service_boundaries no file is in two raw clusters, and
\* no file is in two modules of module_recommendations.
C4_ClustersAndModulesDisjoint ==
    Done("compute_service_boundaries") =>
        /\ \A k1, k2 \in Range(clusters.keys) :
              k1 # k2 => clusters.val[k1] \cap clusters.val[k2] = {}
        /\ \A i, j \in 1..Len(module_recommendations) :
              i # j => ModuleFiles(module_recommendations[i])
                           \cap ModuleFiles(module_recommendations[j]) = {}

\* C5: after compute_service_boundaries the files of all modules together are
\* the files with a table reference or a route, and no others.
C5_ModulesCoverCorrelatedFiles ==
    Done("compute_service_boundaries") =>
        UNION {ModuleFiles(m) : m \in Modules}
            = Range(file_to_tables.keys) \cup Range(file_to_routes.keys)

\* The files the document says reference both tables of a coupling, and the
\* files it says reference each one
DocFilesWith(t) == {r \in DocFiles : t \in DocTablesOf(Basename(r.path))}
DocCommon(e) == Cardinality(DocFilesWith(e.tables[1]) \cap DocFilesWith(e.tables[2]))
DocLeast(e) ==
    Min(Cardinality(DocFilesWith(e.tables[1])), Cardinality(DocFilesWith(e.tables[2])))

\* C6: a coupling is tight exactly when common/min >= 0.8, moderate exactly
\* when 0.5 <= common/min < 0.8, and loose exactly when common/min < 0.5, the
\* ratio being that of the files which reference both tables to the fewer of
\* the files which reference either.
C6_CouplingThresholds ==
    \A e \in Range(data_couplings) :
        /\ e.coupling_strength = "tight"    <=> 10 * DocCommon(e) >= 8 * DocLeast(e)
        /\ e.coupling_strength = "moderate" <=> /\ 10 * DocCommon(e) >= 5 * DocLeast(e)
                                       /\ 10 * DocCommon(e) < 8 * DocLeast(e)
        /\ e.coupling_strength = "loose"    <=> 10 * DocCommon(e) < 5 * DocLeast(e)

\* A coupling at exactly 0.8 has been classified
C6_Witness ==
    \E e \in Range(data_couplings) :
        10 * DocCommon(e) = 8 * DocLeast(e) /\ e.coupling_strength = "tight"

\* C7: a second run over the same documents produces the synthesis document
\* the first run produced.
C7_SameDocumentsSameSynthesis ==
    (run_no = 2 /\ pc = "exited" /\ exit_code = 0) => synthesis = first_synthesis

\* C8 as the specification states it: a module's lines_of_code,
\* complexity_score and security_issues are the sums over its files of the
\* file's total_lines, cyclomatic_complexity and number of own issues.
C8_MetricsAreSums ==
    Done("compute_service_boundaries") =>
        \A m \in Modules :
            /\ m.lines_of_code = DocSumLines(m)
            /\ m.complexity_score = DocSumComplexity(m)
            /\ m.security_issues = DocSumIssues(m)

\* C8: a module's lines_of_code and complexity_score are the sums over its
\* files; its security_issues is the larger of the sum of its files' own
\* issue counts and the greatest total_issues of a hotspot among its files.
C8_SumsAndHotspotMaximum ==
    Done("compute_service_boundaries") =>
        \A m \in Modules :
            /\ m.lines_of_code = DocSumLines(m)
            /\ m.complexity_score = DocSumComplexity(m)
            /\ m.security_issues =
                   Max(DocSumIssues(m), GreatestHotspot(m))

\* A module of several files has been built, and one whose hotspot counts
\* more issues than its files list themselves
C8_Witness ==
    /\ Done("compute_service_boundaries")
    /\ \E m \in Modules : Cardinality(ModuleFiles(m)) >= 2 /\ m.security_issues > 0
    /\ \E m \in Modules : m.security_issues > DocSumIssues(m)

\* C9: a module's tables are exactly the union of the tables its files
\* reference.
C9_ModuleTablesAreUnion ==
    Done("compute_service_boundaries") =>
        \A m \in Modules :
            Range(m.tables) =
                UNION {DictGet(file_to_tables, f, {}) : f \in ModuleFiles(m)}

\* A module of two files which reference different tables has been built
C9_Witness ==
    /\ Done("compute_service_boundaries")
    /\ \E m \in Modules : \E f, g \in ModuleFiles(m) :
          /\ DictGet(file_to_tables, f, {}) \ DictGet(file_to_tables, g, {}) # {}
          /\ DictGet(file_to_tables, g, {}) \ DictGet(file_to_tables, f, {}) # {}

\* C10: without the mandatory document no stage after the load runs, nothing
\* is written and the exit status is 1; with it, a run that completes exits
\* with status 0.
C10_MissingDocumentAborts ==
    /\ ~disk.legacy.exists =>
          /\ Range(stages) \subseteq {"load_all_data"}
          /\ written = {}
          /\ synthesis = "none"
          /\ module_recommendations = <<>>
          /\ pc = "exited" => exit_code = 1
    /\ disk.legacy.exists =>
          /\ pc = "exited" => exit_code = 0 /\ Done("save_outputs")
          /\ Done("save_outputs") => written = {"SYNTHESIS.json", "SYNTHESIS.md"}

\* The run without the mandatory document has exited
C10_Witness ==
    /\ ~disk.legacy.exists
    /\ pc = "exited"
    /\ exit_code = 1
    /\ stages = <<"load_all_data">>

\* The stages of run() in their order
AllStages ==
    <<"load_all_data", "correlate_routes_to_files", "correlate_files_to_tables",
      "analyze_data_coupling", "identify_security_hotspots",
      "compute_service_boundaries", "generate_synthesis", "save_outputs">>

OptionalDocuments == {"routes", "schema", "services"}

\* The mandatory document is there and is JSON
MandatoryReadable == disk.dir /\ disk.legacy.exists /\ "legacy" \notin disk.malformed

\* No list of a document is written as a mapping
AllListed == ~disk.legacy.keyed /\ ~disk.routes.keyed /\ ~disk.services.keyed

\* C11: when the mandatory document is readable and an optional document
\* (routes, schema, service hints) is there but is not JSON, the run does not
\* fail: every stage executes, both outputs are written and the exit status
\* is 0.
C11_MalformedOptionalIsEmpty ==
    (/\ MandatoryReadable
     /\ AllListed
     /\ \E n \in OptionalDocuments : n \in disk.malformed /\ disk[n].exists
     /\ pc = "exited")
        => /\ exit_code = 0
           /\ stages = AllStages
           /\ written = {"SYNTHESIS.json", "SYNTHESIS.md"}

\* C12: with the mandatory document readable and every optional document that
\* is there well formed and listed, whichever optional documents are absent,
\* load_all_data succeeds, every stage runs, both outputs are written and the
\* exit status is 0; without routes no route is correlated, without schema no
\* table is, without service hints no module is flagged a microservice.
C12_AbsentOptionalDocuments ==
    (MandatoryReadable /\ AllListed /\ disk.malformed = {}) =>
        /\ pc # "run_failed"
        /\ pc # "start" => Done("load_all_data")
        /\ pc = "exited" => /\ exit_code = 0
                            /\ stages = AllStages
                            /\ written = {"SYNTHESIS.json", "SYNTHESIS.md"}
        /\ ~disk.routes.exists =>
              /\ route_to_file = EmptyDict
              /\ file_to_routes = EmptyDict
              /\ \A m \in Modules : m.routes = <<>>
        /\ ~disk.schema.exists =>
              /\ file_to_tables = EmptyDict
              /\ table_to_files = EmptyDict
              /\ data_couplings = <<>>
              /\ \A m \in Modules : m.tables = <<>>
        /\ ~disk.services.exists => \A m \in Modules : ~m.is_microservice

\* A run without schema and without service hints has built a module from
\* the routes alone and has exited with status 0
C12_Witness ==
    /\ MandatoryReadable /\ AllListed /\ disk.malformed = {}
    /\ ~disk.schema.exists
    /\ ~disk.services.exists
    /\ Modules # {}
    /\ pc = "exited"
    /\ exit_code = 0

\* C19: whichever of the file records, the routes and the service hints are
\* written as keyed mappings instead of lists, the run is not aborted: with
\* all documents JSON and the mandatory one there, the exit status is 0.
C19_KeyedDocumentsDoNotAbort ==
    (MandatoryReadable /\ disk.malformed = {} /\ pc = "exited") => exit_code = 0

\* C13: when orders is referenced by three files and order_items by exactly
\* two of them, the coupling (order_items, orders) is tight, and after
\* compute_service_boundaries one single module holds all three files and
\* lists both tables.
C13_ScenarioAOneModule ==
    (/\ Done("compute_service_boundaries")
     /\ Cardinality(DocFilesWith(S_orders)) = 3
     /\ Cardinality(DocFilesWith(T_order_items)) = 2)
        => /\ \E e \in Range(data_couplings) :
                 /\ e.tables = <<T_order_items, S_orders>>
                 /\ e.coupling_strength = "tight"
           /\ \E m \in Modules :
                 /\ Cardinality(ModuleFiles(m)) = 3
                 /\ {S_orders, T_order_items} \subseteq Range(m.tables)

\* low < medium < high
RiskRank(risk) == IF risk = "low" THEN 0 ELSE IF risk = "medium" THEN 1 ELSE 2

\* The modules not yet emitted before step i of migration_order
RemainingBefore(i) ==
    {m \in Modules : \A j \in 1..(i - 1) : migration_order[j].module # m.name}

\* No module left before step i has all its dependencies emitted
NothingReadyBefore(i) ==
    \A m \in RemainingBefore(i) :
        \E d \in Range(m.dependencies) :
            \A j \in 1..(i - 1) : migration_order[j].module # d

\* C14: a module emitted when nothing was ready has the lowest risk of the
\* modules still remaining, under low < medium < high, and the lowest
\* complexity among those of that risk.
C14_FallbackLowestRisk ==
    \A i \in 1..Len(migration_order) :
        NothingReadyBefore(i) =>
            \A m \in RemainingBefore(i), o \in RemainingBefore(i) :
                m.name = migration_order[i].module =>
                    \/ RiskRank(m.migration_risk) < RiskRank(o.migration_risk)
                    \/ /\ m.migration_risk = o.migration_risk
                       /\ m.complexity_score <= o.complexity_score

\* The module names of migration_order, step by step
OrderedNames == [i \in 1..Len(migration_order) |-> migration_order[i].module]

\* auth, users and products without dependencies, orders depending on users
\* and products
FoundationScenario ==
    /\ ModuleNames(module_recommendations) = Range(FoundationNames)
    /\ \A m \in Modules :
          m.dependencies = IF m.name = S_orders THEN <<S_products, S_users>> ELSE <<>>

\* C15: in the migration order any two modules without dependencies appear in
\* ascending priority; for auth, users and products without dependencies and
\* orders depending on users and products the order is auth, users, products,
\* orders.
C15_NoDependenciesByPriority ==
    pc = "order_done" =>
        /\ \A a \in Modules, b \in Modules :
              (/\ a.dependencies = <<>>
               /\ b.dependencies = <<>>
               /\ a.priority < b.priority)
                  => /\ StepOf(migration_order, a.name) > 0
                     /\ StepOf(migration_order, a.name) < StepOf(migration_order, b.name)
        /\ FoundationScenario => OrderedNames = FoundationNames

\* The order of the four modules of the scenario has been returned
C15_Witness ==
    /\ pc = "order_done"
    /\ FoundationScenario
    /\ OrderedNames = <<S_auth, S_users, S_products, S_orders>>

\* The findings of the document
Findings == Range(disk.legacy.security_issues_detail)
FindingFiles == {Basename(x.file) : x \in Findings}

\* How many findings of the document name file f with severity sev, whatever
\* the letter case
DocFindings(f, sev) ==
    Cardinality({i \in 1..Len(disk.legacy.security_issues_detail) :
        LET x == disk.legacy.security_issues_detail[i]
        IN  Basename(x.file) = f /\ Lower(x.severity) = sev})

DocCritical(f) == DocFindings(f, <<"c", "r", "i", "t", "i", "c", "a", "l">>)
DocHigh(f)     == DocFindings(f, <<"h", "i", "g", "h">>)
DocMedium(f)   == DocFindings(f, <<"m", "e", "d", "i", "u", "m">>)
DocLow(f)      == DocFindings(f, <<"l", "o", "w">>)
DocTotal(f)    == DocCritical(f) + DocHigh(f) + DocMedium(f) + DocLow(f)
DocScore(f)    == 10 * DocCritical(f) + 5 * DocHigh(f) + 2 * DocMedium(f) + DocLow(f)

\* C16: a file is a hotspot exactly when its findings are at least 3 or its
\* severity score is at least 10, the score being 10 per critical, 5 per
\* high, 2 per medium and 1 per low finding; the hotspot carries that total
\* and that score, and no file has two hotspots.
C16_HotspotThreshold ==
    Done("identify_security_hotspots") =>
        /\ \A f \in FindingFiles :
              (\E h \in Range(security_hotspots) : h.file = f)
                  <=> (DocTotal(f) >= 3 \/ DocScore(f) >= 10)
        /\ \A h \in Range(security_hotspots) :
              /\ h.file \in FindingFiles
              /\ h.total_issues = DocTotal(h.file)
              /\ h.severity_score = DocScore(h.file)
        /\ \A i, j \in 1..Len(security_hotspots) :
              security_hotspots[i].file = security_hotspots[j].file => i = j

\* A file with 5 critical and 7 medium findings is a hotspot of score 64, and
\* a file with one high and one medium finding is none
C16_Witness ==
    /\ Done("identify_security_hotspots")
    /\ \E h \in Range(security_hotspots) :
          /\ DocCritical(h.file) = 5 /\ DocMedium(h.file) = 7
          /\ DocTotal(h.file) = 12
          /\ h.severity_score = 64
    /\ \E f \in FindingFiles :
          /\ DocTotal(f) = 2 /\ DocScore(f) = 7
          /\ \A h \in Range(security_hotspots) : h.file # f

\* C17: the hotspot list is ordered by non-increasing severity score.
C17_HotspotsByScore ==
    \A i, j \in 1..Len(security_hotspots) :
        i < j => security_hotspots[i].severity_score >= security_hotspots[j].severity_score

\* Two hotspots are listed, the one of greater score first although the
\* document names its file last
C17_Witness ==
    /\ Len(security_hotspots) = 2
    /\ security_hotspots[1].severity_score > security_hotspots[2].severity_score
    /\ security_hotspots[1].file = Basename(FilePath(2))
    /\ security_hotspots[2].file = Basename(FilePath(1))

\* Table pair p comes before table pair q in lexicographic order
PairLess(p, q) == StrLess(p[1], q[1]) \/ (p[1] = q[1] /\ StrLess(p[2], q[2]))

\* C18: the coupling edges are ordered by descending co-occurrence count and,
\* among edges of equal count, by lexicographic table pair, whatever the order
\* of the files in the document.
C18_CouplingsByCountThenPair ==
    \A i, j \in 1..Len(data_couplings) :
        i < j =>
            \/ DocCommon(data_couplings[i]) > DocCommon(data_couplings[j])
            \/ /\ DocCommon(data_couplings[i]) = DocCommon(data_couplings[j])
               /\ PairLess(data_couplings[i].tables, data_couplings[j].tables)

\* The pairs of schema tables, each with the lesser name first
TablePairs == {p \in disk.schema.tables \X disk.schema.tables : StrLess(p[1], p[2])}

\* The basenames of the files the document says reference both tables of p
DocFilesOfPair(p) ==
    {Basename(r.path) : r \in DocFilesWith(p[1]) \cap DocFilesWith(p[2])}

\* C20: when analyze_data_coupling returns there is exactly one edge for each pair
\* of tables that at least 2 files reference together and no other edge; the
\* files of an edge are exactly the files which reference both its tables, and
\* as many as the co-occurrence count.
C20_OneEdgePerCoOccurringPair ==
    pc = "coupling_analyzed" =>
        /\ \A p \in TablePairs :
              Cardinality({i \in 1..Len(data_couplings) : data_couplings[i].tables = p})
                  = IF Cardinality(DocFilesOfPair(p)) >= 2 THEN 1 ELSE 0
        /\ \A e \in Range(data_couplings) :
              /\ e.tables \in TablePairs
              /\ Range(e.accessed_by_files) = DocFilesOfPair(e.tables)
              /\ Len(e.accessed_by_files) = Cardinality(DocFilesOfPair(e.tables))

\* Several pairs have an edge each, while a pair that only one file
\* references has none
C20_Witness ==
    /\ pc = "coupling_analyzed"
    /\ Len(data_couplings) >= 2
    /\ \E p \in TablePairs :
          /\ Cardinality(DocFilesOfPair(p)) = 1
          /\ \A e \in Range(data_couplings) : e.tables # p

\* The route records of the document, and those whose target has basename f
DocRoutes == disk.routes.routes
DocRoutesOf(f) == SelectSeq(DocRoutes, LAMBDA r : Basename(r.target) = f)

\* The first path segment of the first route of file f, misc without one
DocDomainOf(f) ==
    LET segment == UpToFirst(StripSlashes(DocRoutesOf(f)[1].path), "/")
    IN  IF segment = <<>> THEN <<"m", "i", "s", "c">> ELSE segment

\* C21: after compute_service_boundaries a file with routes and without table
\* references is in the cluster named after the first path segment of its
\* first route, in the cluster misc when that path has no segment, and no
\* cluster has the empty name.
C21_RouteDomainOrMisc ==
    Done("compute_service_boundaries") =>
        /\ <<>> \notin Range(clusters.keys)
        /\ \A f \in Range(file_to_routes.keys) \ Range(file_to_tables.keys) :
              /\ HasKey(clusters, DocDomainOf(f))
              /\ f \in clusters.val[DocDomainOf(f)]

\* The basenames of the files of the file-analysis document
DocFileNames == {Basename(r.path) : r \in DocFiles}

\* C22: a route whose target is not a file of the file-analysis document adds
\* no member file and no route to any module: every member file of every
\* module is a file of that document, and every route of a module is a route
\* to such a file.
C22_UnknownTargetDropped ==
    Done("compute_service_boundaries") =>
        \A m \in Modules :
            /\ ModuleFiles(m) \subseteq DocFileNames
            /\ \A k \in Range(m.routes) :
                  \E i \in 1..Len(DocRoutes) :
                      /\ RouteKey(DocRoutes[i]) = k
                      /\ Basename(DocRoutes[i].target) \in DocFileNames

\* C23: after compute_service_boundaries, for every tight coupling there is
\* one raw cluster that contains all the files of the coupling, and one module
\* that contains them all.
C23_TightFilesTogether ==
    Done("compute_service_boundaries") =>
        \A e \in Range(data_couplings) :
            e.coupling_strength = "tight" =>
                /\ \E k \in Range(clusters.keys) :
                      Range(e.accessed_by_files) \subseteq clusters.val[k]
                /\ \E m \in Modules :
                      Range(e.accessed_by_files) \subseteq ModuleFiles(m)

(***************************************************************************)
(* Names of the modules                                                    *)
(***************************************************************************)

\* The non-empty clusters of compute_service_boundaries
NamedClusters == {k \in Range(clusters.keys) : clusters.val[k] # {}}

\* The files of cluster k are member files of a module called name
ClusterBecomes(k, name) ==
    \E m \in Modules : m.name = name /\ clusters.val[k] \subseteq ModuleFiles(m)

W_user    == <<"u", "s", "e", "r">>
W_login   == <<"l", "o", "g", "i", "n">>
W_session == <<"s", "e", "s", "s", "i", "o", "n">>
W_product == <<"p", "r", "o", "d", "u", "c", "t">>
W_item    == <<"i", "t", "e", "m">>

\* C24 as stated: a cluster whose name contains "user", "login" or "session"
\* becomes the module auth, and a cluster whose name contains "product" or
\* "item" becomes the module products.
C24_UserLoginSessionAreAuth ==
    Done("compute_service_boundaries") =>
        \A k \in NamedClusters :
            /\ (Contains(k, W_user) \/ Contains(k, W_login) \/ Contains(k, W_session))
                   => ClusterBecomes(k, S_auth)
            /\ (Contains(k, W_product) \/ Contains(k, W_item))
                   => ClusterBecomes(k, S_products)

\* C24: the first keyword of the vocabulary the name contains decides: a
\* cluster whose name contains "user" becomes the module users; one whose
\* name contains "login" or "session" and not "user" becomes auth; one whose
\* name contains "product" or "item" and none of "user", "auth", "login",
\* "session" becomes products.
C24_FirstKeywordDecides ==
    Done("compute_service_boundaries") =>
        \A k \in NamedClusters :
            /\ Contains(k, W_user) => ClusterBecomes(k, S_users)
            /\ (~Contains(k, W_user)
                 /\ (Contains(k, W_login) \/ Contains(k, W_session)))
                   => ClusterBecomes(k, S_auth)
            /\ (~Contains(k, W_user) /\ ~Contains(k, S_auth)
                 /\ ~Contains(k, W_login) /\ ~Contains(k, W_session)
                 /\ (Contains(k, W_product) \/ Contains(k, W_item)))
                   => ClusterBecomes(k, S_products)

\* A cluster named after "user" and "session" at once has become users
C24_Witness ==
    /\ Done("compute_service_boundaries")
    /\ \E k \in NamedClusters :
          Contains(k, W_user) /\ Contains(k, W_session) /\ ClusterBecomes(k, S_users)

\* C25: clusters that normalize to one name are merged: a module holds the
\* files of every cluster of its name, no two modules share a name, every
\* module has a member file, and the priorities of the N modules are 1..N.
C25_MergedUniqueNumbered ==
    Done("compute_service_boundaries") =>
        LET N == Len(module_recommendations)
        IN  /\ \A i, j \in 1..N :
                  module_recommendations[i].name = module_recommendations[j].name => i = j
            /\ \A m \in Modules :
                  /\ m.php_files # <<>>
                  /\ ModuleFiles(m) =
                        UNION {clusters.val[k] :
                                 k \in {c \in NamedClusters : NormalizeName(c) = m.name}}
            /\ \A k \in NamedClusters : \E m \in Modules : m.name = NormalizeName(k)
            /\ {m.priority : m \in Modules} = 1..N

\* Two clusters of different names have become one module
C25_Witness ==
    /\ Done("compute_service_boundaries")
    /\ \E k1, k2 \in NamedClusters :
          /\ k1 # k2
          /\ clusters.val[k1] # clusters.val[k2]
          /\ \E m \in Modules :
                clusters.val[k1] \cup clusters.val[k2] \subseteq ModuleFiles(m)

\* The modules named in the canonical sequence
Canonical(m) == \E i \in 1..Len(PriorityOrder) : PriorityOrder[i] = m.name

\* The number of names of the canonical sequence before the module's name
CanonicalIndex(m) ==
    Cardinality({i \in 1..Len(PriorityOrder) :
                   \A j \in 1..i : PriorityOrder[j] # m.name})

SortKey(m) == IF Canonical(m) THEN CanonicalIndex(m) ELSE 100 + m.complexity_score

C29_KeywordToListedName ==
    Done("compute_service_boundaries") =>
        /\ \A i \in 1..Len(DomainNames) :
              /\ DomainNames[i][1] \in NamedClusters
                    => ClusterBecomes(DomainNames[i][1], DomainNames[i][2])
              /\ DomainNames[i][2] \in NamedClusters
                    => ClusterBecomes(DomainNames[i][2], DomainNames[i][2])
        /\ \A m \in Modules : NormalizeName(m.name) = m.name

(***************************************************************************)
(* The two route maps                                                      *)
(***************************************************************************)

\* The route keys listed for file f
ListedFor(f) == DictGet(file_to_routes, f, <<>>)

\* C30: after correlate_routes_to_files the two route maps agree: a route key
\* is listed for file f exactly when route_to_file maps it to f, it is listed
\* at most once, and it is listed for at most one file.
C30_RouteMapsAgree ==
    Done("correlate_routes_to_files") =>
        /\ \A f \in Range(file_to_routes.keys) :
              /\ \A r \in Range(ListedFor(f)) :
                    HasKey(route_to_file, r) /\ route_to_file.val[r] = f
              /\ \A i, j \in 1..Len(ListedFor(f)) :
                    ListedFor(f)[i] = ListedFor(f)[j] => i = j
        /\ \A r \in Range(route_to_file.keys) :
              r \in Range(ListedFor(route_to_file.val[r]))
        /\ \A f, g \in Range(file_to_routes.keys) :
              Range(ListedFor(f)) \cap Range(ListedFor(g)) # {} => f = g

(***************************************************************************)
(* The recommendation of a hotspot                                         *)
(***************************************************************************)

\* The findings of the document that name file f, and those of type t
DocFindingsAt(f) ==
    {i \in 1..Len(disk.legacy.security_issues_detail) :
        Basename(disk.legacy.security_issues_detail[i].file) = f}
DocOfType(f, t) ==
    {i \in DocFindingsAt(f) : disk.legacy.security_issues_detail[i].type = t}
DocTypes(f) == {disk.legacy.security_issues_detail[i].type : i \in DocFindingsAt(f)}

\* The first finding of type t of file f
DocFirst(f, t) == CHOOSE i \in DocOfType(f, t) : \A j \in DocOfType(f, t) : i <= j

\* Type u ranks before type t: more findings, or as many and named earlier
RanksBefore(f, u, t) ==
    \/ Cardinality(DocOfType(f, u)) > Cardinality(DocOfType(f, t))
    \/ /\ Cardinality(DocOfType(f, u)) = Cardinality(DocOfType(f, t))
       /\ DocFirst(f, u) < DocFirst(f, t)

\* The top three types of file f
TopThree(f) ==
    {t \in DocTypes(f) :
        Cardinality({u \in DocTypes(f) : RanksBefore(f, u, t)}) < 3}

AuthLike(f) == {t \in TopThree(f) : Contains(Lower(t), S_auth)}

\* C27 as stated: parameterized-query guidance when sql_injection is among
\* the top three types, input-validation guidance when xss is and
\* sql_injection is not, the generic guidance in every other case.
C27_GenericOtherwise ==
    Done("identify_security_hotspots") =>
        \A h \in Range(security_hotspots) :
            h.recommendation =
                IF S_sql_injection \in TopThree(h.file)
                THEN "CRITICAL: Use parameterized queries/TypeORM. Migrate this file early."
                ELSE IF S_xss \in TopThree(h.file)
                THEN "HIGH: Add input validation and output encoding. Use class-validator."
                ELSE "MEDIUM: Address security issues during migration with proper NestJS patterns."

\* C27: parameterized-query guidance when sql_injection is among the top
\* three types; else input-validation guidance when xss is; else the
\* guards-and-access guidance when the name of a top-three type contains
\* "auth"; the generic guidance in every other case.
C27_RecommendationByTopThree ==
    Done("identify_security_hotspots") =>
        \A h \in Range(security_hotspots) :
            h.recommendation =
                IF S_sql_injection \in TopThree(h.file)
                THEN "CRITICAL: Use parameterized queries/TypeORM. Migrate this file early."
                ELSE IF S_xss \in TopThree(h.file)
                THEN "HIGH: Add input validation and output encoding. Use class-validator."
                ELSE IF AuthLike(h.file) # {}
                THEN "HIGH: Implement proper JWT guards and role-based access."
                ELSE "MEDIUM: Address security issues during migration with proper NestJS patterns."

\* A hotspot with findings of sql_injection and xss, neither among its top
\* three types, one of which is broken_auth
C27_Witness ==
    /\ Done("identify_security_hotspots")
    /\ \E h \in Range(security_hotspots) :
          /\ {S_sql_injection, S_xss} \subseteq DocTypes(h.file)
          /\ {S_sql_injection, S_xss} \cap TopThree(h.file) = {}
          /\ S_broken_auth \in TopThree(h.file)
          /\ h.recommendation = "HIGH: Implement proper JWT guards and role-based access."

(***************************************************************************)
(* The dependencies of the modules                                         *)
(***************************************************************************)

\* C28: a dependency is only users or products, it names another module of
\* the run that shares a table with the dependent module, and users and
\* products depend on nothing; so every module is emitted, and at every step
\* of compute_migration_order some remaining module has all its dependencies
\* emitted: the fallback is never taken.
C28_DependenciesAcyclic ==
    /\ pc = "boundaries_computed" =>
          \A m \in Modules :
              /\ \A d \in Range(m.dependencies) :
                    /\ d \in {S_users, S_products}
                    /\ d # m.name
                    /\ \E o \in Modules :
                          o.name = d /\ Range(o.tables) \cap Range(m.tables) # {}
              /\ m.name \in {S_users, S_products} => m.dependencies = <<>>
    /\ pc = "synthesized" =>
          /\ Len(migration_order) = Len(module_recommendations)
          /\ \A i \in 1..Len(migration_order) : ~NothingReadyBefore(i)

\* orders depends on users and on products and is emitted after both
C28_Witness ==
    /\ pc = "synthesized"
    /\ \E m \in Modules :
          m.name = S_orders /\ m.dependencies = <<S_products, S_users>>
    /\ OrderedNames = <<S_users, S_products, S_orders>>
====
